---- MODULE Spec2Model ----
(***************************************************************************)
(* Menu-label inference engine of saz2xlsx (scripts/menu_auto_label.py).    *)
(*                                                                         *)
(* Text is modelled as a sequence of one-character strings, so that every  *)
(* parsing / normalising step of the program (urlparse, _hostkey,          *)
(* _norm_seg, _path_segs, startswith, lower, ...) is computed on the       *)
(* characters as the code computes it.  Scores are exact rationals         *)
(* [n |-> numerator, d |-> denominator] with d > 0.                        *)
(***************************************************************************)
EXTENDS Integers, Sequences, FiniteSets, TLC

VARIABLES
    pc,        \* position of the running operation
    pool,      \* candidate pool: host key -> sequence of <<label, url>>
    args,      \* arguments of the call in progress
    ret,       \* value returned by the last completed call
    zf,        \* the archive: sequence of entries [name, data] (namelist order)
    i,         \* loop index of build_candidate_pool_from_saz (enumerate(names, 1))
    calls,     \* progress callback invocations, in order
    rows,      \* report rows collected by parse_saz_data
    parser     \* the _MenuTreeParser being fed, None when there is none

vars == <<pc, pool, args, ret, zf, i, calls, rows, parser>>

(***************************************************************************)
(* Characters and text helpers (Python str operations).                    *)
(***************************************************************************)
None == <<"None">>          \* Python None; no text contains a multi-character element
Empty == <<>>               \* the empty str ''

UPPER == <<"A","B","C","D","E","F","G","H","I","J","K","L","M",
           "N","O","P","Q","R","S","T","U","V","W","X","Y","Z">>
LOWER == <<"a","b","c","d","e","f","g","h","i","j","k","l","m",
           "n","o","p","q","r","s","t","u","v","w","x","y","z">>
DIGITS == {"0","1","2","3","4","5","6","7","8","9"}
HEXCHARS == DIGITS \cup {"a","b","c","d","e","f","A","B","C","D","E","F"}
SPACES == {" ", "\t", "\n", "\r"}

RangeOf(s) == {s[k] : k \in DOMAIN s}

lower_char(c) ==
    IF \E k \in 1..26 : UPPER[k] = c
    THEN LOWER[CHOOSE k \in 1..26 : UPPER[k] = c]
    ELSE c

\* str.lower()
lower(s) == [k \in DOMAIN s |-> lower_char(s[k])]

IsAlpha(c) == \E k \in 1..26 : UPPER[k] = c \/ LOWER[k] = c

\* s[from:] (1-based, inclusive)
Tail_from(s, from) == SubSeq(s, from, Len(s))

\* str.startswith / str.endswith
startswith(s, p) == Len(p) <= Len(s) /\ SubSeq(s, 1, Len(p)) = p
endswith(s, p) == Len(p) <= Len(s) /\ SubSeq(s, Len(s) - Len(p) + 1, Len(s)) = p

\* `p in s` (substring test)
contains(s, p) ==
    \E k \in 1..(Len(s) - Len(p) + 1) : SubSeq(s, k, k + Len(p) - 1) = p

\* str.find(c): 1-based index of the first occurrence of character c, 0 if none
find(s, c) ==
    IF \E k \in DOMAIN s : s[k] = c
    THEN CHOOSE k \in DOMAIN s : s[k] = c /\ \A m \in 1..(k-1) : s[m] # c
    ELSE 0

\* index of the first character of s that belongs to the set cs, 0 if none
find_any(s, cs) ==
    IF \E k \in DOMAIN s : s[k] \in cs
    THEN CHOOSE k \in DOMAIN s : s[k] \in cs /\ \A m \in 1..(k-1) : s[m] \notin cs
    ELSE 0

\* s[:k-1] when k is the (1-based) index of a separator, s itself when k = 0
cut_before(s, k) == IF k = 0 THEN s ELSE SubSeq(s, 1, k - 1)
\* s[k+1:] when k is the index of a separator, '' when k = 0
cut_after(s, k) == IF k = 0 THEN <<>> ELSE Tail_from(s, k + 1)

\* s.partition(c)[0] and s.partition(c)[2]
before(s, c) == cut_before(s, find(s, c))
after(s, c) == cut_after(s, find(s, c))

\* x or y
or_else(x, y) == IF x # <<>> THEN x ELSE y

\* str.strip()
RECURSIVE lstrip(_)
lstrip(s) == IF s # <<>> /\ s[1] \in SPACES THEN lstrip(Tail(s)) ELSE s
RECURSIVE rstrip(_)
rstrip(s) ==
    IF s # <<>> /\ s[Len(s)] \in SPACES THEN rstrip(SubSeq(s, 1, Len(s) - 1)) ELSE s
strip(s) == rstrip(lstrip(s))

\* str.split(c): always at least one piece
RECURSIVE split(_, _)
RECURSIVE split_at(_, _, _)
split_at(s, c, k) ==
    IF k = 0 THEN <<s>>
    ELSE <<SubSeq(s, 1, k - 1)>> \o split(Tail_from(s, k + 1), c)
split(s, c) == split_at(s, c, find(s, c))

\* sep.join(parts)
RECURSIVE join(_, _)
join(parts, sep) ==
    IF parts = <<>> THEN <<>>
    ELSE IF Len(parts) = 1 THEN parts[1]
    ELSE parts[1] \o sep \o join(Tail(parts), sep)

\* set(seq)
set(seq) == RangeOf(seq)

(***************************************************************************)
(* urllib.parse.urlparse: scheme, netloc, path, query and fragment.  The    *)
(* alphabet of the model has no ';' (path parameters).                     *)
(***************************************************************************)
SCHEME_CHARS == DIGITS \cup {"+", "-", "."}

\* the result once the netloc is known: fragment, then query, cut off the path
url_parts(scheme, netloc, rest) ==
    [scheme |-> scheme, netloc |-> netloc, path |-> before(before(rest, "#"), "?"),
     query |-> after(before(rest, "#"), "?"), fragment |-> after(rest, "#")]

\* the netloc ends at the first '/', '?' or '#' (index e of s, 0 if none)
netloc_until(scheme, s, e) ==
    IF e = 0 THEN url_parts(scheme, s, <<>>)
    ELSE url_parts(scheme, SubSeq(s, 1, e - 1), Tail_from(s, e))

\* a netloc is present iff what follows the scheme starts with '//'
after_scheme(scheme, rest) ==
    IF startswith(rest, <<"/", "/">>)
    THEN netloc_until(scheme, Tail_from(rest, 3), find_any(Tail_from(rest, 3), {"/", "?", "#"}))
    ELSE url_parts(scheme, <<>>, rest)

\* the scheme is what precedes the first ':' (index c), if made of scheme characters
scheme_until(u, c) ==
    IF /\ c > 1
       /\ IsAlpha(u[1])
       /\ \A k \in 1..(c-1) : IsAlpha(u[k]) \/ u[k] \in SCHEME_CHARS
    THEN after_scheme(lower(SubSeq(u, 1, c - 1)), Tail_from(u, c + 1))
    ELSE after_scheme(<<>>, u)

urlparse(u) == scheme_until(u, find(u, ":"))

\* lines 87-90: h, sep, p = netloc.partition(':'); default ports 80 / 443 dropped
strip_default_port(netloc) ==
    IF after(netloc, ":") \in {<<"8","0">>, <<"4","4","3">>} THEN before(netloc, ":")
    ELSE or_else(netloc, before(netloc, ":"))

\* lines 85-86: netloc.split('@', 1)[-1]
strip_userinfo(netloc) == IF find(netloc, "@") > 0 THEN after(netloc, "@") ELSE netloc

\* _hostkey: lower-case, userinfo stripped, default ports 80 / 443 stripped
_hostkey(host_or_url) ==
    strip_default_port(strip_userinfo(lower(or_else(urlparse(host_or_url).netloc,
                                                     host_or_url))))

(***************************************************************************)
(* Path normalisation: _norm_seg, _path_segs.                              *)
(***************************************************************************)
ID == <<"{", "i", "d", "}">>      \* the marker '{id}'

\* _NUM = ^\d+$
_NUM(s) == Len(s) >= 1 /\ \A k \in DOMAIN s : s[k] \in DIGITS

\* _UUID = ^[0-9a-f]{8}-[0-9a-f]{4}-[0-9a-f]{4}-[0-9a-f]{4}-[0-9a-f]{12}$ (re.I)
_UUID(s) ==
    /\ Len(s) = 36
    /\ \A k \in 1..36 : IF k \in {9, 14, 19, 24} THEN s[k] = "-" ELSE s[k] \in HEXCHARS

\* _HEX = ^[0-9a-f]{8,}$ (re.I)
_HEX(s) == Len(s) >= 8 /\ \A k \in DOMAIN s : s[k] \in HEXCHARS

\* \d{n} at position p (1-based); TRUE iff s[p..p+n-1] are digits
DigitsAt(s, p, n) == p + n - 1 <= Len(s) /\ \A k \in p..(p + n - 1) : s[k] \in DIGITS

\* [-/]? at position p: the positions at which the rest of the pattern may resume
OptSep(s, p) == {p} \cup (IF p <= Len(s) /\ s[p] \in {"-", "/"} THEN {p + 1} ELSE {})

\* _DATE = ^\d{4}[-/]?\d{2}([-/]?\d{2})?$
_DATE(s) ==
    /\ DigitsAt(s, 1, 4)
    /\ \E p \in OptSep(s, 5) :
          /\ DigitsAt(s, p, 2)
          /\ \/ p + 2 = Len(s) + 1
             \/ \E r \in OptSep(s, p + 2) : DigitsAt(s, r, 2) /\ r + 2 = Len(s) + 1

\* the extensions of \.(?:jsp|do|php|aspx|html?|cgi|action)$
EXTENSIONS == { <<".","j","s","p">>, <<".","d","o">>, <<".","p","h","p">>,
                <<".","a","s","p","x">>, <<".","h","t","m","l">>, <<".","h","t","m">>,
                <<".","c","g","i">>, <<".","a","c","t","i","o","n">> }

\* the number of characters the pattern matches at the end of t (0: no match)
ext_len(t) ==
    IF \E e \in EXTENSIONS : endswith(t, e)
    THEN Len(CHOOSE e \in EXTENSIONS : endswith(t, e))
    ELSE 0

\* re.sub(...) with the re.I flag forgotten
strip_ext_case_sensitive(s) == SubSeq(s, 1, Len(s) - ext_len(s))

\* re.sub(r'\.(?:jsp|do|php|aspx|html?|cgi|action)$', '', s, flags=re.I)
strip_ext(s) == SubSeq(s, 1, Len(s) - ext_len(lower(s)))

\* lines 485-490, on the stripped segment
norm_stripped(s) ==
    IF s = <<>> THEN <<>>
    ELSE IF _NUM(s) \/ _UUID(s) \/ _HEX(s) \/ _DATE(s) THEN ID
    ELSE strip_ext(s)

_norm_seg(seg) == norm_stripped(strip(seg))

\* [x] if x else []
if_nonempty(x) == IF x # <<>> THEN <<x>> ELSE <<>>

\* [_norm_seg(x) for x in raw if _norm_seg(x)]
RECURSIVE norm_nonempty(_)
norm_nonempty(raw) ==
    IF raw = <<>> THEN <<>>
    ELSE if_nonempty(_norm_seg(raw[1])) \o norm_nonempty(Tail(raw))

_path_segs(u) == norm_nonempty(split(or_else(urlparse(u).path, <<"/">>), "/"))

(***************************************************************************)
(* difflib.SequenceMatcher(None, a, b).ratio() = 2*M/T, M the total size   *)
(* of the matching blocks.  (autojunk only acts on strings of 200+ chars.) *)
(***************************************************************************)
\* length of the common run of a[x..ahi] and b[y..bhi] starting at x, y
RECURSIVE run_len(_, _, _, _, _, _)
run_len(a, b, x, y, ahi, bhi) ==
    IF x <= ahi /\ y <= bhi /\ a[x] = b[y]
    THEN 1 + run_len(a, b, x + 1, y + 1, ahi, bhi)
    ELSE 0

\* block t = <<x, y, k>> is preferred to r: longer, else earlier in a, else earlier in b
no_worse(t, r) ==
    \/ t[3] > r[3]
    \/ t[3] = r[3] /\ t[1] < r[1]
    \/ t[3] = r[3] /\ t[1] = r[1] /\ t[2] <= r[2]

\* the preferred block of the set B, <<alo, blo, 0>> when there is none
longest(alo, blo, B) ==
    IF B = {} THEN <<alo, blo, 0>>
    ELSE CHOOSE t \in B : \A r \in B : no_worse(t, r)

\* find_longest_match(alo, ahi, blo, bhi)
find_longest_match(a, b, alo, ahi, blo, bhi) ==
    longest(alo, blo,
            {<<p[1], p[2], run_len(a, b, p[1], p[2], ahi, bhi)>> :
                 p \in {q \in (alo..ahi) \X (blo..bhi) : a[q[1]] = b[q[2]]}})

\* sum of the sizes of get_matching_blocks() within a[alo..ahi], b[blo..bhi]
RECURSIVE matches(_, _, _, _, _, _)
RECURSIVE matches_around(_, _, _, _, _, _, _)
matches_around(a, b, alo, ahi, blo, bhi, m) ==
    IF m[3] = 0 THEN 0
    ELSE m[3] + matches(a, b, alo, m[1] - 1, blo, m[2] - 1)
              + matches(a, b, m[1] + m[3], ahi, m[2] + m[3], bhi)
matches(a, b, alo, ahi, blo, bhi) ==
    IF alo > ahi \/ blo > bhi THEN 0
    ELSE matches_around(a, b, alo, ahi, blo, bhi,
                        find_longest_match(a, b, alo, ahi, blo, bhi))

(***************************************************************************)
(* Scores: exact rationals.                                                *)
(***************************************************************************)
Rat(n, d) == [n |-> n, d |-> d]
RLt(x, y) == x.n * y.d < y.n * x.d
RLe(x, y) == x.n * y.d <= y.n * x.d
REq(x, y) == x.n * y.d = y.n * x.d
RAddInt(x, k) == Rat(x.n + k * x.d, x.d)
RMin(x, y) == IF RLe(x, y) THEN x ELSE y

W_JACCARD == 40
W_LAST == 20
W_SUFFIX == 15
W_RATIO == 25
MAX_SCORE == 100
LABEL_BONUS == 5
DEFAULT_THRESHOLD == 58

\* lines 509-512: inter / max(1, union)
jaccard(sa, sb) ==
    Rat(Cardinality(sa \cap sb),
        IF Cardinality(sa \cup sb) >= 1 THEN Cardinality(sa \cup sb) ELSE 1)

\* line 515
last_match(a_segs, b_segs) ==
    IF a_segs # <<>> /\ b_segs # <<>> /\ a_segs[Len(a_segs)] = b_segs[Len(b_segs)]
    THEN 1 ELSE 0

suffix_one_way(a_path, b_path) == IF endswith(a_path, b_path) THEN 1 ELSE 0

\* line 519
suffix(a_path, b_path) ==
    IF endswith(a_path, b_path) \/ endswith(b_path, a_path) THEN 1 ELSE 0

\* _calculate_ratio(matches, length): 2*M/T, or 1.0 when T = 0
calculate_ratio(M, T) == IF T = 0 THEN Rat(1, 1) ELSE Rat(2 * M, T)

\* line 522
ratio(a_path, b_path) ==
    calculate_ratio(matches(a_path, b_path, 1, Len(a_path), 1, Len(b_path)),
                    Len(a_path) + Len(b_path))

\* line 524: (jacc*40) + (last_match*20) + (suffix*15) + (sm*25)
weighted(jacc, last, suf, sm) ==
    Rat(W_JACCARD * jacc.n * sm.d + (W_LAST * last + W_SUFFIX * suf) * jacc.d * sm.d
            + W_RATIO * sm.n * jacc.d,
        jacc.d * sm.d)

\* lines 509-525 given the segment sequences and their '/'-joined strings
blend_paths(a_segs, b_segs, a_path, b_path) ==
    RMin(Rat(MAX_SCORE, 1),
         weighted(jaccard(set(a_segs), set(b_segs)), last_match(a_segs, b_segs),
                  suffix(a_path, b_path), ratio(a_path, b_path)))

\* lines 505-525
blend(a_segs, b_segs) ==
    IF a_segs = <<>> /\ b_segs = <<>> THEN Rat(0, 1)
    ELSE blend_paths(a_segs, b_segs, join(a_segs, <<"/">>), join(b_segs, <<"/">>))

\* path_similarity without the `a_url == b_url` shortcut
path_similarity_no_shortcut(a_url, b_url) ==
    IF a_url = <<>> \/ b_url = <<>> THEN Rat(0, 1)
    ELSE blend(_path_segs(a_url), _path_segs(b_url))

path_similarity(a_url, b_url) ==
    IF a_url = <<>> \/ b_url = <<>> THEN Rat(0, 1)
    ELSE IF a_url = b_url THEN Rat(MAX_SCORE, 1)
    ELSE blend(_path_segs(a_url), _path_segs(b_url))

(***************************************************************************)
(* Best-match resolver: best_menu_for_url.                                 *)
(***************************************************************************)
\* pool.get(h, [])
pool_get(p, h) == IF h \in DOMAIN p THEN p[h] ELSE <<>>

\* re.findall(r'\[([^\]]+)\]', label): the bracketed groups, left to right
RECURSIVE bracket_groups(_)
RECURSIVE bracket_close(_, _)
\* s follows a '[' ; c is the index of the first ']' in s (0 if none)
bracket_close(s, c) ==
    IF c = 0 THEN <<>>
    ELSE IF c = 1 THEN bracket_groups(s)
    ELSE <<SubSeq(s, 1, c - 1)>> \o bracket_groups(Tail_from(s, c + 1))
bracket_groups(s) ==
    IF find(s, "[") = 0 THEN <<>>
    ELSE bracket_close(after(s, "["), find(after(s, "["), "]"))

\* m[-1] if m else label
last_or(m, label) == IF m # <<>> THEN m[Len(m)] ELSE label

\* lines 629-633: last bracketed token of the label (or the whole label), lower-cased
lbl_last(label) ==
    IF label = <<>> THEN <<>> ELSE lower(last_or(bracket_groups(label), label))

\* lines 623-624: last normalised segment of the query URL, lower-cased
tgt_last(url) == lower(last_or(_path_segs(url), <<>>))

\* lines 634-635: +5 when the URL's last segment occurs in the label's last token
with_bonus(s, t, l) ==
    IF t # <<>> /\ l # <<>> /\ contains(l, t) THEN RAddInt(s, LABEL_BONUS) ELSE s

\* lines 627-635: score of one candidate, label bonus included
cand_score(url, cand) ==
    with_bonus(path_similarity(url, cand[2]), tgt_last(url), lbl_last(cand[1]))

\* the lists of all the host keys of the set H, one after the other
RECURSIVE concat_hosts(_, _)
concat_hosts(p, H) ==
    IF H = {} THEN <<>>
    ELSE p[CHOOSE h \in H : TRUE] \o concat_hosts(p, H \ {CHOOSE h \in H : TRUE})

\* lines 614-617: the referer host's candidates, if the host differs and is in the pool
referer_candidates(p, hostk, rhostk) ==
    IF rhostk # <<>> /\ rhostk # hostk /\ rhostk \in DOMAIN p THEN p[rhostk] ELSE <<>>

\* candidate list with every host of the pool added, not only the referer's
candidates_for_all_hosts(url, p, referer_url) ==
    pool_get(p, _hostkey(url)) \o concat_hosts(p, DOMAIN p \ {_hostkey(url)})

\* lines 611-617: own host's candidates, then the referer host's
candidates_for(url, p, referer_url) ==
    pool_get(p, _hostkey(url)) \o
        (IF referer_url \in {None, <<>>} THEN <<>>
         ELSE referer_candidates(p, _hostkey(url), _hostkey(referer_url)))

NO_MATCH == [label |-> None, score |-> Rat(0, 1), url |-> None]

\* line 637
as_best(cand, s) == [label |-> cand[1], score |-> s, url |-> cand[2]]

\* the update that lets a later candidate take over on an equal positive score
keep_not_worse(best, cand, s) ==
    IF RLt(Rat(0, 1), s) /\ RLe(best.score, s) THEN as_best(cand, s) ELSE best

\* lines 636-637: if s > best_score: best = candidate
keep_better(best, cand, s) == IF RLt(best.score, s) THEN as_best(cand, s) ELSE best

\* the update keeping the last candidate with a positive score
keep_last_positive(best, cand, s) == IF RLt(Rat(0, 1), s) THEN as_best(cand, s) ELSE best

\* the loop with keep_last_positive as its update
RECURSIVE track_best_last(_, _, _, _)
track_best_last(url, candidates, k, best) ==
    IF k > Len(candidates) THEN best
    ELSE track_best_last(url, candidates, k + 1,
                         keep_last_positive(best, candidates[k],
                                            cand_score(url, candidates[k])))

\* lines 622-637: the loop tracking (best_label, best_score, best_cand), from index k
RECURSIVE track_best(_, _, _, _)
track_best(url, candidates, k, best) ==
    IF k > Len(candidates) THEN best
    ELSE track_best(url, candidates, k + 1,
                    keep_better(best, candidates[k], cand_score(url, candidates[k])))

\* lines 639-641 returning the best label whatever the threshold
apply_threshold_always(best, threshold) == best

\* lines 639-641
apply_threshold(best, threshold) ==
    IF RLe(Rat(threshold, 1), best.score) THEN best
    ELSE [label |-> None, score |-> best.score, url |-> best.url]

\* lines 619-641 on the candidate list
best_of(url, candidates, threshold) ==
    IF candidates = <<>> THEN NO_MATCH
    ELSE apply_threshold(track_best(url, candidates, 1, NO_MATCH), threshold)

best_menu_for_url(url, p, referer_url, threshold) ==
    IF url = <<>> THEN NO_MATCH
    ELSE best_of(url, candidates_for(url, p, referer_url), threshold)

(***************************************************************************)
(* urllib.parse.urljoin / urlunparse, as _resolve_candidate_url uses them. *)
(***************************************************************************)
uses_relative == {<<>>, <<"f","t","p">>, <<"h","t","t","p">>, <<"g","o","p","h","e","r">>, <<"n","n","t","p">>, <<"i","m","a","p">>, <<"w","a","i","s">>, <<"f","i","l","e">>,
                  <<"h","t","t","p","s">>, <<"s","h","t","t","p">>, <<"m","m","s">>, <<"p","r","o","s","p","e","r","o">>, <<"r","t","s","p">>, <<"r","t","s","p","s">>, <<"r","t","s","p","u">>,
                  <<"s","f","t","p">>, <<"s","v","n">>, <<"s","v","n","+","s","s","h">>, <<"w","s">>, <<"w","s","s">>}
uses_netloc == {<<>>, <<"f","t","p">>, <<"h","t","t","p">>, <<"g","o","p","h","e","r">>, <<"n","n","t","p">>, <<"t","e","l","n","e","t">>, <<"i","m","a","p">>, <<"w","a","i","s">>,
                <<"f","i","l","e">>, <<"m","m","s">>, <<"h","t","t","p","s">>, <<"s","h","t","t","p">>, <<"s","n","e","w","s">>, <<"p","r","o","s","p","e","r","o">>, <<"r","t","s","p">>,
                <<"r","t","s","p","s">>, <<"r","t","s","p","u">>, <<"r","s","y","n","c">>, <<"s","v","n">>, <<"s","v","n","+","s","s","h">>, <<"s","f","t","p">>, <<"n","f","s">>, <<"g","i","t">>,
                <<"g","i","t","+","s","s","h">>, <<"w","s">>, <<"w","s","s">>}

\* urlunsplit: '//' netloc in front of the path, then scheme, query, fragment
with_netloc(p) ==
    IF \/ p.netloc # <<>>
       \/ (p.scheme # <<>> /\ p.scheme \in uses_netloc /\ ~startswith(p.path, <<"/", "/">>))
    THEN <<"/", "/">> \o p.netloc
             \o (IF p.path # <<>> /\ p.path[1] # "/" THEN <<"/">> ELSE <<>>) \o p.path
    ELSE p.path
with_scheme(p, url) == IF p.scheme # <<>> THEN p.scheme \o <<":">> \o url ELSE url
with_query(p, url) == IF p.query # <<>> THEN url \o <<"?">> \o p.query ELSE url
with_fragment(p, url) == IF p.fragment # <<>> THEN url \o <<"#">> \o p.fragment ELSE url
urlunparse(p) == with_fragment(p, with_query(p, with_scheme(p, with_netloc(p))))

\* base_parts: bpath.split('/') without its last item, unless that item is ''
base_parts(parts) ==
    IF parts[Len(parts)] # <<>> THEN SubSeq(parts, 1, Len(parts) - 1) ELSE parts

nonempty(x) == x # <<>>

\* segments[1:-1] = filter(None, segments[1:-1])
filter_inner(segments) ==
    IF Len(segments) <= 2 THEN segments
    ELSE <<segments[1]>> \o SelectSeq(SubSeq(segments, 2, Len(segments) - 1), nonempty)
             \o <<segments[Len(segments)]>>

\* the segments to resolve: the path's own when it is rooted, else after the base's
segments_of(bpath, path) ==
    IF path[1] = "/" THEN split(path, "/")
    ELSE filter_inner(base_parts(split(bpath, "/")) \o split(path, "/"))

\* '..' pops the last resolved segment (if any), '.' is skipped
RECURSIVE resolve_dots(_, _)
resolve_dots(segments, resolved) ==
    IF segments = <<>> THEN resolved
    ELSE IF segments[1] = <<".", ".">>
         THEN resolve_dots(Tail(segments),
                           IF resolved = <<>> THEN <<>>
                           ELSE SubSeq(resolved, 1, Len(resolved) - 1))
    ELSE IF segments[1] = <<".">> THEN resolve_dots(Tail(segments), resolved)
    ELSE resolve_dots(Tail(segments), Append(resolved, segments[1]))

\* a final '.' or '..' leaves a trailing '/'
trailing_dir(segments, resolved) ==
    IF segments[Len(segments)] \in {<<".">>, <<".", ".">>} THEN Append(resolved, <<>>)
    ELSE resolved

resolved_path(segments) ==
    or_else(join(trailing_dir(segments, resolve_dots(segments, <<>>)), <<"/">>), <<"/">>)

\* the reference r (no netloc of its own) resolved against the parsed base b
relative_to(b, r) ==
    IF r.path = <<>>
    THEN urlunparse([r EXCEPT !.path = b.path, !.query = or_else(r.query, b.query)])
    ELSE urlunparse([r EXCEPT !.path = resolved_path(segments_of(b.path, r.path))])

inherit_netloc(b, r) == IF r.scheme \in uses_netloc THEN [r EXCEPT !.netloc = b.netloc] ELSE r

join_parsed(b, r, url) ==
    IF r.scheme # b.scheme \/ r.scheme \notin uses_relative THEN url
    ELSE IF r.scheme \in uses_netloc /\ r.netloc # <<>> THEN urlunparse(r)
    ELSE relative_to(b, inherit_netloc(b, r))

\* urlparse(url, bscheme): the base's scheme is the default
default_scheme(p, scheme) == IF p.scheme = <<>> THEN [p EXCEPT !.scheme = scheme] ELSE p

join_with_base(b, url) == join_parsed(b, default_scheme(urlparse(url), b.scheme), url)

urljoin(base, url) ==
    IF base = <<>> THEN url
    ELSE IF url = <<>> THEN base
    ELSE join_with_base(urlparse(base), url)

\* urlsplit raises ValueError("Invalid IPv6 URL") on a netloc with one bracket only
bracket_mismatch(netloc) == ("[" \in RangeOf(netloc)) # ("]" \in RangeOf(netloc))
urlparse_raises(u) == bracket_mismatch(urlparse(u).netloc)
urljoin_raises(base, url) ==
    base # <<>> /\ url # <<>> /\ (urlparse_raises(base) \/ urlparse_raises(url))

(***************************************************************************)
(* Candidate extraction.  An HTML document is the record                   *)
(*   [base |-> value of its <base href> (None if it has none),             *)
(*    body |-> its elements in document order],                            *)
(* each [tag, closing, href, label, class]: an <a> element with its href   *)
(* and its text, or the start or end tag of a <nav>, <ul>, <ol> or <li>    *)
(* (class: the class and id attributes of the start tag).                  *)
(***************************************************************************)
JAVASCRIPT == <<"j","a","v","a","s","c","r","i","p","t",":">>

\* line 142-153 read the anchors of the document
a_element(label, href) ==
    [tag |-> "a", closing |-> FALSE, href |-> href, label |-> label, class |-> <<>>]
start_tag(tag, class) ==
    [tag |-> tag, closing |-> FALSE, href |-> <<>>, label |-> <<>>, class |-> class]
end_tag(tag) == [tag |-> tag, closing |-> TRUE, href |-> <<>>, label |-> <<>>, class |-> <<>>]
is_anchor(t) == t.tag = "a"

\* lines 77-78: the <base href> of the document if it has one, else the page URL
base_of(html, current_url) == IF html.base # None THEN strip(html.base) ELSE current_url

\* lines 73-76: nothing, javascript: and fragment-only candidates are excluded
excluded(candidate) ==
    \/ candidate = <<>>
    \/ startswith(candidate, JAVASCRIPT)
    \/ startswith(candidate, <<"#">>)

_resolve_candidate_url(candidate, current_url, html) ==
    IF excluded(candidate) THEN <<>>
    ELSE urljoin(base_of(html, current_url), candidate)

\* line 79 raises what urljoin raises
resolve_raises(candidate, current_url, html) ==
    ~excluded(candidate) /\ urljoin_raises(base_of(html, current_url), candidate)

\* lines 151-152
url_cand(label, url) == IF url # <<>> THEN << <<label, url>> >> ELSE <<>>

\* lines 147-152: one <a> element
anchor_cand(a, current_url, html) ==
    IF a.href # <<>> /\ a.label # <<>>
    THEN url_cand(strip(a.label), _resolve_candidate_url(a.href, current_url, html))
    ELSE <<>>

RECURSIVE anchor_cands(_, _, _)
anchor_cands(anchors, current_url, html) ==
    IF anchors = <<>> THEN <<>>
    ELSE anchor_cand(anchors[1], current_url, html)
             \o anchor_cands(Tail(anchors), current_url, html)

_extract_anchor_candidates(html, current_url) ==
    anchor_cands(SelectSeq(html.body, is_anchor), current_url, html)

\* an exception of line 150 leaves _extract_anchor_candidates
anchors_raise(html, current_url) ==
    \E k \in DOMAIN html.body :
        /\ is_anchor(html.body[k])
        /\ html.body[k].href # <<>> /\ html.body[k].label # <<>>
        /\ resolve_raises(html.body[k].href, current_url, html)

(***************************************************************************)
(* Menu tree: _MenuTreeParser and _flatten_menu_tree.  The tree is kept as *)
(* the root (node 0) and the other nodes in creation order, each with the  *)
(* index of its parent; a node's children are the nodes naming it, in      *)
(* creation order, which is the order of node.children.  A label or href   *)
(* that was never set is the empty text.                                   *)
(***************************************************************************)
\* lines 302-303
_MENU_HINTS ==
    {<<"m","e","n","u">>, <<"n","a","v">>, <<"g","n","b">>, <<"l","n","b">>, <<"s","n","b">>, <<"s","u","b","m","e","n","u">>, <<"d","e","p","t","h">>, <<"d","r","o","p","d","o","w","n">>, <<"t","a","b">>,
     <<"c","a","t","e","g","o","r","y">>, <<"s","i","d","e">>, <<"g","l","o","b","a","l">>, <<"p","r","i","m","a","r","y">>, <<"s","e","c","o","n","d","a","r","y">>}
_BREAD_HINTS == {<<"b","r","e","a","d","c","r","u","m","b">>, <<"b","r","e","a","d","c","r","u","m","b","s">>, <<"b","r","e","a","d">>, <<"p","a","t","h">>, <<"l","o","c","a","t","i","o","n">>, <<"l","o","c">>}

\* lines 309-313
_MenuNode(parent) == [parent |-> parent, label |-> <<>>, href |-> <<>>]

\* lines 317-326
_MenuTreeParser ==
    [root |-> _MenuNode(0), nodes |-> <<>>, stack |-> <<0>>, nav_depth |-> 0, menu_ul_depth |-> 0]

\* lines 328-332
_is_menu_ul(class) == \E k \in _MENU_HINTS \cup _BREAD_HINTS : contains(lower(class), k)

\* the test of lines 342, 347, 354, 359 and 372
in_scope(p) == p.nav_depth > 0 \/ p.menu_ul_depth > 0
\* self.stack[-1]
top(p) == p.stack[Len(p.stack)]

\* lines 341-345
push_node(p) ==
    [p EXCEPT !.nodes = Append(@, _MenuNode(top(p))), !.stack = Append(@, Len(p.nodes) + 1)]

\* lines 334-351 for the tags other than <a>
handle_starttag(p, t) ==
    IF t.tag = "nav" THEN [p EXCEPT !.nav_depth = @ + 1]
    ELSE IF t.tag \in {"ul", "ol"}
         THEN (IF _is_menu_ul(t.class) THEN [p EXCEPT !.menu_ul_depth = @ + 1] ELSE p)
    ELSE IF t.tag = "li" THEN (IF in_scope(p) THEN push_node(p) ELSE p)
    ELSE p

\* lines 364-367: label and href are set only while they are empty
labelled_node(node, label, href) ==
    [node EXCEPT !.label = IF @ = <<>> THEN label ELSE @,
                 !.href = IF @ = <<>> /\ href # <<>> THEN href ELSE @]
\* lines 362-367: cur = self.stack[-1], which is the root when no node is open
label_top(p, label, href) ==
    IF top(p) = 0 THEN [p EXCEPT !.root = labelled_node(@, label, href)]
    ELSE [p EXCEPT !.nodes[top(p)] = labelled_node(@, label, href)]
\* lines 346-350, 353-355, 358-370: start tag, text and end tag of one <a> element
handle_anchor(p, t) ==
    IF in_scope(p) /\ strip(t.label) # <<>> THEN label_top(p, strip(t.label), t.href) ELSE p

\* lines 357-379 for the tags other than </a>
handle_endtag(p, t) ==
    IF t.tag = "li"
    THEN (IF Len(p.stack) > 1 /\ in_scope(p)
          THEN [p EXCEPT !.stack = SubSeq(@, 1, Len(@) - 1)] ELSE p)
    ELSE IF t.tag \in {"ul", "ol"}
         THEN (IF p.menu_ul_depth > 0 THEN [p EXCEPT !.menu_ul_depth = @ - 1] ELSE p)
    ELSE IF t.tag = "nav"
         THEN (IF p.nav_depth > 0 THEN [p EXCEPT !.nav_depth = @ - 1] ELSE p)
    ELSE p

\* what HTMLParser.feed calls for one element of the document
handle_tag(p, t) ==
    IF t.tag = "a" THEN handle_anchor(p, t)
    ELSE IF t.closing THEN handle_endtag(p, t)
    ELSE handle_starttag(p, t)

\* line 419: parser.feed(html)
RECURSIVE feed(_, _)
feed(p, body) == IF body = <<>> THEN p ELSE feed(handle_tag(p, body[1]), Tail(body))

\* lines 393-396: new_path of walk for node n - the labels of its labelled ancestors,
\* outermost first, then its own label if it has one
RECURSIVE new_path(_, _)
new_path(nodes, n) ==
    IF n = 0 THEN <<>>
    ELSE new_path(nodes, nodes[n].parent)
             \o (IF strip(nodes[n].label) # <<>> THEN <<strip(nodes[n].label)>> ELSE <<>>)

\* line 401: ' > '.join(f'[{x}]' for x in new_path)
bracketed(x) == <<"[">> \o x \o <<"]">>
path_label(path) == join([k \in DOMAIN path |-> bracketed(path[k])], <<" ",">"," ">>)

\* lines 398-403: what walk records for node n
leaf_entry(leaf, path, url) == [leaf |-> leaf, path |-> path, url |-> url]
resolved_entry(nodes, n, absurl) ==
    IF absurl # <<>> THEN <<leaf_entry(strip(nodes[n].label), path_label(new_path(nodes, n)), absurl)>>
    ELSE <<>>
walk_node(nodes, n, current_url, html) ==
    IF strip(nodes[n].label) # <<>> /\ strip(nodes[n].href) # <<>>
    THEN resolved_entry(nodes, n, _resolve_candidate_url(strip(nodes[n].href), current_url, html))
    ELSE <<>>

\* lines 392-409: the depth-first walk from the root's children visits the nodes in
\* creation order (a node's subtree is created while the node is on the stack)
RECURSIVE walk_from(_, _, _, _)
walk_from(nodes, n, current_url, html) ==
    IF n > Len(nodes) THEN <<>>
    ELSE walk_node(nodes, n, current_url, html) \o walk_from(nodes, n + 1, current_url, html)

\* lines 381-410: the entries carry both results (path, url) and leaf_map ((leaf, url) -> path)
_flatten_menu_tree(p, current_url, html) == walk_from(p.nodes, 1, current_url, html)
\* line 399 raises what urljoin raises
flatten_raises(p, current_url, html) ==
    \E n \in DOMAIN p.nodes :
        /\ strip(p.nodes[n].label) # <<>> /\ strip(p.nodes[n].href) # <<>>
        /\ resolve_raises(strip(p.nodes[n].href), current_url, html)

results_of(flat) == [k \in DOMAIN flat |-> <<flat[k].path, flat[k].url>>]
\* leaf_map[key]: the path-label written last for the key; None when the key is absent
RECURSIVE leaf_map_get(_, _)
leaf_map_get(flat, key) ==
    IF flat = <<>> THEN None
    ELSE IF <<flat[Len(flat)].leaf, flat[Len(flat)].url>> = key THEN flat[Len(flat)].path
    ELSE leaf_map_get(SubSeq(flat, 1, Len(flat) - 1), key)

\* lines 412-423
extract_menu_tree_candidates(html, current_url) ==
    _flatten_menu_tree(feed(_MenuTreeParser, html.body), current_url, html)

\* lines 244-296: the documents of this model hold no onclick / data-url / form /
\* select navigation
_extract_non_a_candidates(html, current_url) == <<>>

\* lines 465-472 and 591-597: first occurrence of each item, order kept
RECURSIVE uniq_from(_, _)
uniq_from(items, out) ==
    IF items = <<>> THEN out
    ELSE uniq_from(Tail(items),
                   IF \E k \in DOMAIN out : out[k] = items[1] THEN out
                   ELSE Append(out, items[1]))
uniq(items) == uniq_from(items, <<>>)

\* the result of a call that may raise: the list returned, or raised = TRUE
returned(cands) == [raised |-> FALSE, cands |-> cands]
Raised == [raised |-> TRUE, cands |-> <<>>]

\* lines 449-452
promoted(item, path) == IF path = None THEN item ELSE <<path, item[2]>>
\* the items left with their plain labels
keep_plain_labels(items, flat) == items

\* lines 446-454
_apply_pathlabel(items, flat) ==
    [k \in DOMAIN items |-> promoted(items[k], leaf_map_get(flat, items[k]))]

\* lines 441-472 once the tree has been flattened
combine(flat, html, current_url) ==
    uniq(results_of(flat)
             \o _apply_pathlabel(_extract_anchor_candidates(html, current_url), flat)
             \o _apply_pathlabel(_extract_non_a_candidates(html, current_url), flat))

\* lines 421-472 once the document has been fed to the parser p
candidates_from(p, html, current_url) ==
    IF flatten_raises(p, current_url, html) \/ anchors_raise(html, current_url) THEN Raised
    ELSE returned(combine(_flatten_menu_tree(p, current_url, html), html, current_url))

\* lines 429-472
extract_menu_candidates_from_html(html, current_url) ==
    candidates_from(feed(_MenuTreeParser, html.body), html, current_url)

(***************************************************************************)
(* Pool building: build_candidate_pool_from_saz.  The archive zf is the    *)
(* sequence of its entries [name, data] in namelist order; data is what    *)
(* zf.read gives, already parsed: a response (Content-Type, document) or a *)
(* request (method, target, Host, Referer), or unreadable.                 *)
(***************************************************************************)
RAW_PREFIX == <<"r","a","w","/">>
S_SUFFIX == <<"_","s",".","t","x","t">>
C_SUFFIX == <<"_","c",".","t","x","t">>
TEXT_HTML == <<"t","e","x","t","/","h","t","m","l">>
XHTML == <<"a","p","p","l","i","c","a","t","i","o","n","/","x","h","t","m","l","+","x","m","l">>

entry(name, data) == [name |-> name, data |-> data]
NoDoc == [base |-> None, body |-> <<>>]
unreadable ==
    [readable |-> FALSE, ctype |-> <<>>, html |-> NoDoc,
     method |-> <<>>, target |-> <<>>, Host |-> <<>>, Referer |-> <<>>]
response(ctype, html) ==
    [readable |-> TRUE, ctype |-> ctype, html |-> html,
     method |-> <<>>, target |-> <<>>, Host |-> <<>>, Referer |-> <<>>]
request_by(method, target, Host, Referer) ==
    [readable |-> TRUE, ctype |-> <<>>, html |-> NoDoc,
     method |-> method, target |-> target, Host |-> Host, Referer |-> Referer]
request(target, Host, Referer) == request_by(<<"G","E","T">>, target, Host, Referer)

namelist(z) == [k \in DOMAIN z |-> z[k].name]
in_namelist(z, name) == \E k \in DOMAIN z : z[k].name = name
read(z, name) == z[CHOOSE k \in DOMAIN z : z[k].name = name].data

\* line 542
is_response_name(n) == startswith(n, RAW_PREFIX) /\ endswith(n, S_SUFFIX)
names_of(z) == SelectSeq(namelist(z), is_response_name)

\* line 136
_content_type_is_html(ctype) ==
    contains(lower(ctype), TEXT_HTML) \/ contains(lower(ctype), XHTML)

\* line 552: re.search(r'raw/(\d+)_s\.txt$', sname); '' when there is no match
RECURSIVE trailing_digits(_)
trailing_digits(s) ==
    IF s # <<>> /\ s[Len(s)] \in DIGITS
    THEN 1 + trailing_digits(SubSeq(s, 1, Len(s) - 1))
    ELSE 0
mnum_at(stem, n) ==
    IF n >= 1 /\ endswith(SubSeq(stem, 1, Len(stem) - n), RAW_PREFIX)
    THEN Tail_from(stem, Len(stem) - n + 1)
    ELSE <<>>
mnum_stem(stem) == mnum_at(stem, trailing_digits(stem))
mnum_of(sname) == mnum_stem(SubSeq(sname, 1, Len(sname) - Len(S_SUFFIX)))

\* line 558: f'{int(mnum):04d}'
RECURSIVE int_digits(_)
int_digits(mnum) ==
    IF Len(mnum) > 1 /\ mnum[1] = "0" THEN int_digits(Tail(mnum)) ELSE mnum
RECURSIVE zfill(_, _)
zfill(s, width) == IF Len(s) >= width THEN s ELSE zfill(<<"0">> \o s, width)
format_04d(mnum) == zfill(int_digits(mnum), 4)

\* lines 556-562: the request entry's name, '' when neither name is in the archive
reqn_of(z, mnum) ==
    IF in_namelist(z, RAW_PREFIX \o mnum \o C_SUFFIX) THEN RAW_PREFIX \o mnum \o C_SUFFIX
    ELSE IF in_namelist(z, RAW_PREFIX \o format_04d(mnum) \o C_SUFFIX)
         THEN RAW_PREFIX \o format_04d(mnum) \o C_SUFFIX
    ELSE <<>>

\* what one response entry adds to the pool; status tells where its processing ended
skipped(status) == [status |-> status, key |-> <<>>, cands |-> <<>>]
mined(key, cands) == [status |-> "mined", key |-> key, cands |-> cands]

\* the candidates filed under the host of the first candidate's own URL
mine_cands_by_link_host(current_url, extracted) ==
    IF extracted.raised THEN skipped("exception")
    ELSE IF extracted.cands = <<>> THEN skipped("no_candidates")
    ELSE mined(_hostkey(extracted.cands[1][2]), extracted.cands)

\* lines 575-581
mine_cands(current_url, extracted) ==
    IF extracted.raised THEN skipped("exception")
    ELSE IF extracted.cands = <<>> THEN skipped("no_candidates")
    ELSE mined(_hostkey(current_url), extracted.cands)

mine_page(html, current_url) ==
    mine_cands(current_url, extract_menu_candidates_from_html(html, current_url))

\* lines 570-572
scheme_of(ref) == IF startswith(ref, <<"h","t","t","p">>) THEN urlparse(ref).scheme ELSE <<"h","t","t","p","s">>
current_url_of(req) ==
    IF startswith(req.target, <<"h","t","t","p">>) THEN req.target
    ELSE scheme_of(req.Referer) \o <<":","/","/">> \o req.Host \o req.target

\* the page is mined whether or not the request names its Host
mine_request_hostless(resp, req) ==
    IF ~req.readable THEN skipped("unreadable")
    ELSE mine_page(resp.html, current_url_of(req))

\* lines 564-567
mine_request(resp, req) ==
    IF ~req.readable THEN skipped("unreadable")
    ELSE IF req.Host = <<>> THEN skipped("no_host")
    ELSE mine_page(resp.html, current_url_of(req))

\* lines 556-562
mine_paired(z, resp, reqn) ==
    IF reqn = <<>> THEN skipped("no_request") ELSE mine_request(resp, read(z, reqn))

\* lines 552-555
mine_numbered(z, resp, mnum) ==
    IF mnum = <<>> THEN skipped("no_number") ELSE mine_paired(z, resp, reqn_of(z, mnum))

\* lines 547-549
mine_response(z, sname, resp) ==
    IF ~resp.readable THEN skipped("unreadable")
    ELSE IF ~_content_type_is_html(resp.ctype) THEN skipped("not_html")
    ELSE mine_numbered(z, resp, mnum_of(sname))

\* lines 545-584: the body of the loop for the response entry sname
mine_entry(z, sname) == mine_response(z, sname, read(z, sname))

\* lines 580-581: pool.setdefault(key, []); pool[key].extend(cands)
extend(p, m) ==
    IF m.status = "mined" THEN (m.key :> (pool_get(p, m.key) \o m.cands)) @@ p ELSE p

\* the pool with its lists left as they were accumulated
dedup_keep_all(p) == p

\* lines 590-597
dedup(p) == [h \in DOMAIN p |-> uniq(p[h])]

\* line 586: i % progress_every, which raises ZeroDivisionError on 0
abs(n) == IF n < 0 THEN 0 - n ELSE n
progress_raises(progress, k, progress_every) == progress /\ k # 1 /\ progress_every = 0
progress_due(progress, k, total, progress_every) ==
    /\ progress
    /\ \/ k = 1
       \/ (progress_every # 0 /\ k % abs(progress_every) = 0)
       \/ k = total

\* lines 541-598 as one function of the archive
RECURSIVE scan(_, _, _)
scan(z, names, p) ==
    IF names = <<>> THEN p ELSE scan(z, Tail(names), extend(p, mine_entry(z, names[1])))
build_candidate_pool_from_saz(z) == dedup(scan(z, names_of(z), <<>>))

(***************************************************************************)
(* Texts used as inputs.                                                   *)
(***************************************************************************)
HTTPS == <<"h","t","t","p","s",":","/","/">>
HTTP == <<"h","t","t","p",":","/","/">>
EX_COM == <<"e","x",".","c","o","m">>
A_COM == <<"a",".","c","o","m">>
U_about == HTTPS \o EX_COM \o <<"/","a","b","o","u","t">>
U_contact == HTTPS \o EX_COM \o <<"/","c","o","n","t","a","c","t">>
U_xyz == HTTPS \o EX_COM \o <<"/","x","y","z">>
U_root == HTTPS \o EX_COM \o <<"/">>
U_shop_123 == HTTPS \o EX_COM \o <<"/","s","h","o","p","/","1","2","3">>
U_shop_999 == HTTPS \o EX_COM \o <<"/","s","h","o","p","/","9","9","9">>
U_about_443 == HTTPS \o <<"E","X",".","c","o","m",":","4","4","3">> \o <<"/","a","b","o","u","t">>
U_a_about == HTTPS \o A_COM \o <<"/","a","b","o","u","t">>
U_a_home == HTTP \o <<"u","@">> \o A_COM \o <<":","8","0","/","h","o","m","e">>
L_About == <<"[","A","b","o","u","t","]">>
L_Intro == <<"I","n","t","r","o">>
L_Menu_Shop == <<"[","M","e","n","u","]"," ",">"," ","[","S","h","o","p","]">>

\* all sequences without repetition over the set S, of length at most n
RECURSIVE distinct_seqs(_, _)
distinct_seqs(S, n) ==
    IF n = 0 THEN {<<>>}
    ELSE LET shorter == distinct_seqs(S, n - 1)
         IN  shorter \cup UNION {{Append(q, x) : x \in S \ RangeOf(q)} : q \in shorter}

(***************************************************************************)
(* Specification SpecMatch: a built pool, queried once per request.        *)
(***************************************************************************)
MaxHostCands == 2       \* candidates per host key in the pools explored

EX_CANDS == {<<L_About, U_about>>, <<L_Intro, U_about>>, <<L_Menu_Shop, U_shop_999>>}
A_CANDS == {<<L_About, U_a_about>>, <<L_Intro, U_xyz>>}

\* a pool as the builder leaves it: no empty list, no duplicate within a host
mk_pool(ex, a) ==
    [h \in (IF ex # <<>> THEN {EX_COM} ELSE {}) \cup (IF a # <<>> THEN {A_COM} ELSE {})
        |-> IF h = EX_COM THEN ex ELSE a]

POOLS == {mk_pool(ex, a) : ex \in distinct_seqs(EX_CANDS, MaxHostCands),
                           a \in distinct_seqs(A_CANDS, MaxHostCands)}

QUERY_URLS == {<<>>, U_about, U_contact, U_xyz, U_root, U_shop_123, U_about_443, U_a_about}
REFERERS == {None, U_a_home, U_root}
THRESHOLDS == {0, DEFAULT_THRESHOLD, 100}

NoArgs == [op |-> "none"]

InitMatch ==
    /\ pc = "idle"
    /\ pool \in POOLS
    /\ args = NoArgs
    /\ ret = None
    /\ zf = <<>>
    /\ i = 0
    /\ calls = <<>>
    /\ rows = <<>>
    /\ parser = None

\* saz_parser.py line 86: one call of best_menu_for_url for a request
CallBestMenu ==
    /\ pc = "idle"
    /\ \E url \in QUERY_URLS, referer_url \in REFERERS, threshold \in THRESHOLDS :
          /\ args' = [op |-> "best_menu_for_url", url |-> url,
                      referer_url |-> referer_url, threshold |-> threshold]
          /\ ret' = best_menu_for_url(url, pool, referer_url, threshold)
    /\ pc' = "returned"
    /\ UNCHANGED <<pool, zf, i, calls, rows, parser>>

\* the caller consumes the result and goes on to the next request
NextRequest ==
    /\ pc = "returned"
    /\ pc' = "idle"
    /\ args' = NoArgs
    /\ ret' = None
    /\ UNCHANGED <<pool, zf, i, calls, rows, parser>>

NextMatch == CallBestMenu \/ NextRequest

SpecMatch == InitMatch /\ [][NextMatch]_vars

\* the candidate list the call in progress was resolved against
called_candidates == candidates_for(args.url, pool, args.referer_url)

\* the (bonus-adjusted) scores of the candidate list of the call, by position
called_scores == [k \in DOMAIN called_candidates |-> cand_score(args.url, called_candidates[k])]

\* the largest of a non-empty family of scores
max_score(scores) ==
    scores[CHOOSE k \in DOMAIN scores : \A m \in DOMAIN scores : RLe(scores[m], scores[k])]

\* the result is (None, score, URL) of a candidate that reaches the score mx
is_diagnostic_of(r, cs, scores, mx) ==
    /\ r.label = None
    /\ REq(r.score, mx)
    /\ r.url # None
    /\ \E k \in DOMAIN cs : cs[k][2] = r.url /\ REq(scores[k], mx)

(***************************************************************************)
(* Claims on best_menu_for_url (checked under SpecMatch).                  *)
(***************************************************************************)
\* C1: whenever the returned score is below the threshold the returned label is
\* None; a non-None label is returned only with a score >= threshold, and it is
\* then the label of a candidate of the list whose URL is the returned URL.
C1_LabelNoneBelowThreshold ==
    pc = "returned" =>
        /\ RLt(ret.score, Rat(args.threshold, 1)) => ret.label = None
        /\ ret.label # None =>
              /\ RLe(Rat(args.threshold, 1), ret.score)
              /\ \E k \in DOMAIN called_candidates :
                    called_candidates[k] = <<ret.label, ret.url>>

\* a call whose best candidate exists but scores below the threshold
C1_Witness ==
    /\ pc = "returned"
    /\ ret.url # None
    /\ RLt(ret.score, Rat(args.threshold, 1))
    /\ ret.label = None

\* the candidate lists of the two host keys a call may draw from
scoped_hosts ==
    {_hostkey(args.url)} \cup
        (IF args.referer_url = None THEN {} ELSE {_hostkey(args.referer_url)})

\* C2: host scoping - the candidate returned by best_menu_for_url is an element of
\* pool[hostkey(url)] or of pool[hostkey(referer)]; a candidate registered only
\* under another host key is never returned.
C2_HostScoping ==
    (pc = "returned" /\ ret.url # None) =>
        \E h \in scoped_hosts \cap DOMAIN pool : \E k \in DOMAIN pool[h] :
            /\ pool[h][k][2] = ret.url
            /\ ret.label \in {None, pool[h][k][1]}

\* a call answered with a candidate that only the referer's host key holds
C2_Witness ==
    /\ pc = "returned"
    /\ ret.label # None
    /\ args.referer_url # None
    /\ _hostkey(args.referer_url) = A_COM
    /\ _hostkey(args.url) = EX_COM
    /\ <<ret.label, ret.url>> \notin RangeOf(pool_get(pool, EX_COM))
    /\ <<ret.label, ret.url>> \in RangeOf(pool_get(pool, A_COM))

\* C3: exact-match scenario - when the pool entry of the query URL's host holds the
\* single candidate (L, u) and the query URL is exactly u, the call with threshold
\* 58.0 (and no referer) returns (L, 100.0, u).
C3_ExactMatchReturns100 ==
    (/\ pc = "returned"
     /\ args.threshold = DEFAULT_THRESHOLD
     /\ args.referer_url = None
     /\ args.url # <<>>
     /\ Len(pool_get(pool, _hostkey(args.url))) = 1
     /\ pool_get(pool, _hostkey(args.url))[1][2] = args.url)
    => /\ ret.label = pool_get(pool, _hostkey(args.url))[1][1]
       /\ REq(ret.score, Rat(100, 1))
       /\ ret.url = args.url

\* C4: the score of every Match Result lies between 0.0 and 100.0 inclusive.
C4_ScoreInRange ==
    pc = "returned" =>
        /\ RLe(Rat(0, 1), ret.score)
        /\ RLe(ret.score, Rat(100, 1))

\* every score of the family is 0
all_zero(scores) == \A k \in DOMAIN scores : REq(scores[k], Rat(0, 1))

\* the diagnostics clause for a call on url with the non-empty candidate list cs
\* whose scores are `scores`: a best score below the threshold is answered by
\* (None, bestScore, bestURL)
diagnostics_populated(r, url, cs, scores, threshold) ==
    (url # <<>> /\ RLt(max_score(scores), Rat(threshold, 1)))
        => is_diagnostic_of(r, cs, scores, max_score(scores))

\* C5 as stated, for a call with the non-empty candidate list cs
diagnostics_always(r, url, cs, scores, threshold) ==
    /\ diagnostics_populated(r, url, cs, scores, threshold)
    /\ r = NO_MATCH => url = <<>>

\* C5 as amended, for a call with the non-empty candidate list cs
diagnostics_when_positive(r, url, cs, scores, threshold) ==
    /\ ~all_zero(scores) => diagnostics_populated(r, url, cs, scores, threshold)
    /\ r = NO_MATCH => (url = <<>> \/ all_zero(scores))

\* C5 as stated: with a non-empty URL and a non-empty candidate list whose best
\* score is below the threshold the call returns (None, bestScore, bestURL) with
\* bestURL the non-None URL of a maximum-scoring candidate; and (None, 0.0, None)
\* is returned only for an empty URL or an empty candidate list.
C5_DiagnosticsAlwaysPopulated ==
    (pc = "returned" /\ called_candidates # <<>>) =>
        diagnostics_always(ret, args.url, called_candidates, called_scores, args.threshold)

\* C5 (amended): the same, for a best score that is positive and below the
\* threshold; (None, 0.0, None) is returned only for an empty URL, an empty
\* candidate list, or a list in which every candidate scores 0.
C5_DiagnosticsWhenPositive ==
    (pc = "returned" /\ called_candidates # <<>>) =>
        diagnostics_when_positive(ret, args.url, called_candidates, called_scores,
                                  args.threshold)

\* a below-threshold call answered with the score and URL of its best candidate,
\* out of two candidates of different positive scores
C5_Witness ==
    /\ pc = "returned"
    /\ ret.label = None
    /\ ret.url # None
    /\ RLt(Rat(0, 1), ret.score)
    /\ RLt(ret.score, Rat(args.threshold, 1))
    /\ \E k \in DOMAIN called_scores :
          RLt(Rat(0, 1), called_scores[k]) /\ RLt(called_scores[k], ret.score)

(***************************************************************************)
(* Specification SpecSim: path_similarity applied to pairs of URLs.        *)
(***************************************************************************)
U_root_query == HTTPS \o EX_COM \o <<"/","?","q","=","1">>
U_view_do == HTTPS \o EX_COM \o <<"/","v","i","e","w",".","d","o">>
U_host_only == HTTPS \o EX_COM

SIM_URLS == {<<>>, U_about, U_contact, U_xyz, U_root, U_root_query, U_host_only,
             U_shop_123, U_shop_999, U_view_do, U_a_about, U_a_home}

InitSim ==
    /\ pc = "idle"
    /\ pool = <<>>
    /\ args = NoArgs
    /\ ret = None
    /\ zf = <<>>
    /\ i = 0
    /\ calls = <<>>
    /\ rows = <<>>
    /\ parser = None

\* line 627: one call of path_similarity
CallPathSimilarity ==
    /\ pc = "idle"
    /\ \E a_url \in SIM_URLS, b_url \in SIM_URLS :
          /\ args' = [op |-> "path_similarity", a_url |-> a_url, b_url |-> b_url]
          /\ ret' = path_similarity(a_url, b_url)
    /\ pc' = "returned"
    /\ UNCHANGED <<pool, zf, i, calls, rows, parser>>

\* the caller goes on to the next candidate
NextCandidate ==
    /\ pc = "returned"
    /\ pc' = "idle"
    /\ args' = NoArgs
    /\ ret' = None
    /\ UNCHANGED <<pool, zf, i, calls, rows, parser>>

NextSim == CallPathSimilarity \/ NextCandidate

SpecSim == InitSim /\ [][NextSim]_vars

\* C6: path_similarity(a, b) is always within [0, 100]; it is 0.0 whenever either
\* argument is empty and 100.0 whenever a and b are the same non-empty string,
\* whatever the URL's path is.
C6_SimilarityRangeAndSpecialCases ==
    pc = "returned" =>
        /\ RLe(Rat(0, 1), ret) /\ RLe(ret, Rat(100, 1))
        /\ (args.a_url = <<>> \/ args.b_url = <<>>) => REq(ret, Rat(0, 1))
        /\ (args.a_url # <<>> /\ args.a_url = args.b_url) => REq(ret, Rat(100, 1))

\* a URL without any path segment compared with itself scores 100
C6_Witness ==
    /\ pc = "returned"
    /\ args.a_url = U_root
    /\ args.b_url = U_root
    /\ _path_segs(args.a_url) = <<>>
    /\ REq(ret, Rat(100, 1))

(***************************************************************************)
(* Specification SpecSegs: _path_segs applied to URLs built from raw path  *)
(* segments.                                                               *)
(***************************************************************************)
MaxSegs == 3            \* raw segments per path

S_user == <<"u","s","e","r">>
S_edit == <<"e","d","i","t">>
S_123 == <<"1","2","3">>
S_999 == <<"9","9","9">>
S_hex9 == <<"D","e","a","d","B","e","e","f","9">>
S_hex7 == <<"d","e","a","d","b","e","e">>
S_date == <<"2","0","2","4","-","0","1","-","1","5">>
S_uuid == <<"1","2","3","e","4","5","6","7","-","e","8","9","b","-","1","2","d","3","-","a","4","5","6","-","4","2","6","6","1","4","1","7","4","0","0","0">>
S_view_do == <<"v","i","e","w",".","d","o">>
S_index_HTML == <<"i","n","d","e","x",".","H","T","M","L">>
S_dot_do == <<".","d","o">>
S_padded_42 == <<" ","4","2"," ">>

RAW_SEGMENTS == {S_user, S_edit, S_123, S_999, S_hex9, S_hex7, S_date, S_uuid,
                 S_view_do, S_index_HTML, S_dot_do, S_padded_42, <<>>}

URL_TAILS == {<<>>, <<"?","i","d","=","7","#","t","o","p">>}

\* the URL https://ex.com/<seg>/<seg>...<tail>
url_of(raw, tail) == HTTPS \o EX_COM \o <<"/">> \o join(raw, <<"/">>) \o tail

InitSegs ==
    /\ pc = "idle"
    /\ pool = <<>>
    /\ args = NoArgs
    /\ ret = None
    /\ zf = <<>>
    /\ i = 0
    /\ calls = <<>>
    /\ rows = <<>>
    /\ parser = None

\* lines 504, 623: one call of _path_segs
CallPathSegs ==
    /\ pc = "idle"
    /\ \E n \in 0..MaxSegs : \E raw \in [1..n -> RAW_SEGMENTS] : \E tail \in URL_TAILS :
          /\ args' = [op |-> "_path_segs", raw |-> raw, tail |-> tail,
                      u |-> url_of(raw, tail)]
          /\ ret' = _path_segs(url_of(raw, tail))
    /\ pc' = "returned"
    /\ UNCHANGED <<pool, zf, i, calls, rows, parser>>

\* the caller takes the segments and goes on
NextUrl ==
    /\ pc = "returned"
    /\ pc' = "idle"
    /\ args' = NoArgs
    /\ ret' = None
    /\ UNCHANGED <<pool, zf, i, calls, rows, parser>>

NextSegs == CallPathSegs \/ NextUrl

SpecSegs == InitSegs /\ [][NextSegs]_vars

\* the classes of segment the claim names: purely numeric, UUID, hex string of
\* length >= 8, date-shaped
VOLATILE_SEGMENTS == {S_123, S_999, S_hex9, S_date, S_uuid, S_padded_42}

\* the documented normal form of each raw segment ('' = dropped): volatile
\* segments become {id}, a known extension is stripped from the others,
\* surrounding whitespace does not count
documented_norm(seg) ==
    CASE seg \in VOLATILE_SEGMENTS -> ID
      [] seg = S_view_do -> <<"v","i","e","w">>
      [] seg = S_index_HTML -> <<"i","n","d","e","x">>
      [] seg = S_dot_do -> <<>>
      [] OTHER -> seg

RECURSIVE documented_segs(_)
documented_segs(raw) ==
    IF raw = <<>> THEN <<>>
    ELSE (IF documented_norm(raw[1]) = <<>> THEN <<>> ELSE <<documented_norm(raw[1])>>)
             \o documented_segs(Tail(raw))

\* the same path with every volatile segment replaced by another volatile one
other_volatile(raw) ==
    [k \in DOMAIN raw |-> IF raw[k] \in VOLATILE_SEGMENTS
                          THEN (IF raw[k] = S_999 THEN S_date ELSE S_999)
                          ELSE raw[k]]

\* C7: _path_segs(url) is the sequence of the path's non-empty segments in their
\* original order, each volatile segment (numeric, UUID, hex >= 8, date-shaped)
\* replaced by {id} and a trailing known extension stripped from the others
\* (segments empty once normalised are dropped); so two URLs whose paths differ
\* only in volatile segments have equal segment sequences.
C7_PathSegsNormalised ==
    pc = "returned" =>
        /\ ret = documented_segs(args.raw)
        /\ _path_segs(url_of(other_volatile(args.raw), <<>>)) = ret

\* /user/123/edit gives [user, {id}, edit]
C7_Witness ==
    /\ pc = "returned"
    /\ args.raw = <<S_user, S_123, S_edit>>
    /\ ret = <<S_user, ID, S_edit>>

(***************************************************************************)
(* Specification SpecPool: build_candidate_pool_from_saz run on an archive *)
(* of a few sessions, one response entry per step.                         *)
(***************************************************************************)
MaxSessions == 3        \* sessions per archive

L_Abt == <<"A","b","o","u","t">>
L_Shop == <<"S","h","o","p">>
L_Contact == <<"C","o","n","t","a","c","t">>
L_Bad == <<"B","a","d">>
L_Js == <<"J","s">>
H_about == <<"/","a","b","o","u","t">>
H_bad_ipv6 == <<"/","/","[","x">>
H_javascript == <<"j","a","v","a","s","c","r","i","p","t",":","v","o","i","d","(","0",")">>

D_home == [base |-> None,
           body |-> <<a_element(L_Abt, H_about), a_element(L_Shop, <<"s","h","o","p","/","9","9","9">>)>>]
D_about == [base |-> None,
            body |-> <<a_element(L_Abt, U_about), a_element(L_Contact, <<"c","o","n","t","a","c","t">>),
                       a_element(L_Abt, U_about)>>]
D_based == [base |-> U_root, body |-> <<a_element(L_Abt, <<"a","b","o","u","t">>)>>]
D_broken == [base |-> None,
             body |-> <<a_element(L_Abt, H_about), a_element(L_Bad, H_bad_ipv6)>>]
D_empty == [base |-> None, body |-> <<a_element(L_Js, H_javascript)>>]

CT_HTML == <<"T","e","x","t","/","H","T","M","L",";"," ","c","h","a","r","s","e","t","=","u","t","f","-","8">>
CT_PNG == <<"i","m","a","g","e","/","p","n","g">>
CT_XML == <<"t","e","x","t","/","x","m","l">>

\* the sessions: the entries each one puts into the archive
T_home ==
    <<entry(<<"r","a","w","/","0","0","0","1","_","c",".","t","x","t">>, request(<<"/">>, EX_COM, <<>>)),
      entry(<<"r","a","w","/","0","0","0","1","_","m",".","x","m","l">>, response(CT_XML, NoDoc)),
      entry(<<"r","a","w","/","0","0","0","1","_","s",".","t","x","t">>, response(CT_HTML, D_home))>>
T_about ==
    <<entry(<<"r","a","w","/","0","0","0","2","_","c",".","t","x","t">>, request(H_about, <<"E","X",".","c","o","m",":","4","4","3">>, U_root)),
      entry(<<"r","a","w","/","0","0","0","2","_","s",".","t","x","t">>, response(CT_HTML, D_about))>>
T_other ==
    <<entry(<<"r","a","w","/","0","0","0","3","_","c",".","t","x","t">>, request(U_a_home, <<"A",".","c","o","m",":","8","0">>, <<>>)),
      entry(<<"r","a","w","/","3","_","s",".","t","x","t">>, response(CT_HTML, D_based))>>
T_unreadable ==
    <<entry(<<"r","a","w","/","0","0","0","4","_","c",".","t","x","t">>, request(<<"/">>, EX_COM, <<>>)),
      entry(<<"r","a","w","/","0","0","0","4","_","s",".","t","x","t">>, unreadable)>>
T_no_request ==
    <<entry(<<"r","a","w","/","0","0","0","5","_","s",".","t","x","t">>, response(CT_HTML, D_home))>>
T_no_host ==
    <<entry(<<"r","a","w","/","0","0","0","6","_","c",".","t","x","t">>, request(<<"/">>, <<>>, <<>>)),
      entry(<<"r","a","w","/","0","0","0","6","_","s",".","t","x","t">>, response(CT_HTML, D_home))>>
T_raises ==
    <<entry(<<"r","a","w","/","0","0","0","7","_","c",".","t","x","t">>, request(<<"/">>, EX_COM, <<>>)),
      entry(<<"r","a","w","/","0","0","0","7","_","s",".","t","x","t">>, response(CT_HTML, D_broken))>>
T_image ==
    <<entry(<<"r","a","w","/","0","0","0","8","_","c",".","t","x","t">>, request(<<"/","l","o","g","o",".","p","n","g">>, EX_COM, U_root)),
      entry(<<"r","a","w","/","0","0","0","8","_","s",".","t","x","t">>, response(CT_PNG, NoDoc)),
      entry(<<"r","a","w","/","x","_","s",".","t","x","t">>, response(CT_HTML, D_home))>>
T_empty ==
    <<entry(<<"r","a","w","/","0","0","0","9","_","c",".","t","x","t">>, request(<<"/">>, EX_COM, <<>>)),
      entry(<<"r","a","w","/","0","0","0","9","_","s",".","t","x","t">>, response(CT_HTML, D_empty))>>

SESSIONS == {T_home, T_about, T_other, T_unreadable, T_no_request, T_no_host,
             T_raises, T_image, T_empty}

\* the archive holding the entries of the sessions q, in order
RECURSIVE archive_of(_)
archive_of(q) == IF q = <<>> THEN <<>> ELSE q[1] \o archive_of(Tail(q))

\* progress callback given or not, and progress_every
PROGRESS_OPTIONS == {[progress |-> FALSE, progress_every |-> 200],
                     [progress |-> TRUE, progress_every |-> 200],
                     [progress |-> TRUE, progress_every |-> 2],
                     [progress |-> TRUE, progress_every |-> 0]}

InitPool ==
    /\ pc = "scan"
    /\ pool = <<>>
    /\ \E q \in distinct_seqs(SESSIONS, MaxSessions) : zf = archive_of(q)
    /\ \E o \in PROGRESS_OPTIONS :
          args = [op |-> "build_candidate_pool_from_saz",
                  progress |-> o.progress, progress_every |-> o.progress_every]
    /\ ret = None
    /\ i = 1
    /\ calls = <<>>
    /\ rows = <<>>
    /\ parser = None

\* lines 544-587: the loop body for the i-th response entry, with its finally clause
ScanEntry ==
    /\ pc = "scan"
    /\ i <= Len(names_of(zf))
    /\ pool' = extend(pool, mine_entry(zf, names_of(zf)[i]))
    /\ IF progress_raises(args.progress, i, args.progress_every)
       THEN /\ pc' = "raised"
            /\ UNCHANGED <<i, calls>>
       ELSE /\ pc' = "scan"
            /\ i' = i + 1
            /\ calls' = IF progress_due(args.progress, i, Len(names_of(zf)),
                                        args.progress_every)
                        THEN Append(calls, <<i, Len(names_of(zf))>>)
                        ELSE calls
    /\ UNCHANGED <<args, ret, zf, rows, parser>>

\* lines 589-598: the loop is over; the lists are de-duplicated and the pool returned
ReturnPool ==
    /\ pc = "scan"
    /\ i > Len(names_of(zf))
    /\ pool' = dedup(pool)
    /\ ret' = dedup(pool)
    /\ pc' = "done"
    /\ UNCHANGED <<args, zf, i, calls, rows, parser>>

NextPool == ScanEntry \/ ReturnPool

SpecPool == InitPool /\ [][NextPool]_vars

\* the candidates the entry with contribution m was found to have for host key h
found_under(m, h) == IF m.status = "mined" /\ m.key = h THEN m.cands ELSE <<>>

\* the candidates discovered for host key h, in discovery order: archive order of
\* the response entries, document order within an entry
RECURSIVE discovered(_, _, _)
discovered(z, names, h) ==
    IF names = <<>> THEN <<>>
    ELSE found_under(mine_entry(z, names[1]), h) \o discovered(z, Tail(names), h)

first_index(s, x) == CHOOSE k \in DOMAIN s : s[k] = x /\ \A m \in 1..(k - 1) : s[m] # x

\* kept holds every item of found once, in the order of their first occurrences
first_occurrences(found, kept) ==
    /\ \A a, b \in DOMAIN kept : a # b => kept[a] # kept[b]
    /\ RangeOf(kept) = RangeOf(found)
    /\ \A a, b \in DOMAIN kept :
          a < b => first_index(found, kept[a]) < first_index(found, kept[b])

\* C8: dedup law: the pool returned by build_candidate_pool_from_saz holds, under
\* each host key, no two candidates with identical (label, url); the candidates
\* kept are the ones discovered, in discovery order, the first occurrence of each
\* pair being the one retained.
C8_DedupLaw ==
    pc = "done" =>
        \A h \in DOMAIN ret : first_occurrences(discovered(zf, names_of(zf), h), ret[h])

\* a returned pool one of whose lists lost a repeated candidate discovered between
\* two others
C8_Witness ==
    /\ pc = "done"
    /\ EX_COM \in DOMAIN ret
    /\ Len(ret[EX_COM]) = 3
    /\ Len(discovered(zf, names_of(zf), EX_COM)) = 4
    /\ discovered(zf, names_of(zf), EX_COM)[3] = ret[EX_COM][1]

\* the archive without the entry named n
RECURSIVE remove_entry(_, _)
remove_entry(z, n) ==
    IF z = <<>> THEN <<>>
    ELSE (IF z[1].name = n THEN <<>> ELSE <<z[1]>>) \o remove_entry(Tail(z), n)

\* the ways the processing of a response entry fails: the entry is unreadable, no
\* request entry is paired with it, the request is unreadable or names no Host, or
\* the extraction from its document raises
request_fails(resp, req) ==
    \/ ~req.readable
    \/ req.Host = <<>>
    \/ extract_menu_candidates_from_html(resp.html, current_url_of(req)).raised
pairing_fails(z, resp, reqn) == reqn = <<>> \/ request_fails(resp, read(z, reqn))
entry_fails(z, n) ==
    ~read(z, n).readable \/ pairing_fails(z, read(z, n), reqn_of(z, mnum_of(n)))
failed_entries(z) == {n \in RangeOf(names_of(z)) : entry_fails(z, n)}

\* C10: per-exchange failure isolation: when the processing of a response entry
\* fails (unreadable entry, missing paired request, missing Host, exception in
\* parsing or extraction) the scan goes on, and the pool returned is the pool built
\* from the archive without that entry: nothing of the failed entry is left in it.
C10_FailureIsolated ==
    pc = "done" =>
        \A n \in failed_entries(zf) :
            ret = build_candidate_pool_from_saz(remove_entry(zf, n))

\* a returned pool holding the candidates of an entry scanned after a failed one,
\* whose document had given one candidate before its extraction raised
C10_Witness ==
    /\ pc = "done"
    /\ Len(names_of(zf)) >= 2
    /\ entry_fails(zf, names_of(zf)[1])
    /\ read(zf, names_of(zf)[1]).html = D_broken
    /\ mine_entry(zf, names_of(zf)[2]).status = "mined"
    /\ DOMAIN ret # {}

(***************************************************************************)
(* Specification SpecExtract: extract_menu_candidates_from_html applied to *)
(* documents of a few anchors, with or without a <base href>.              *)
(***************************************************************************)
MaxAnchors == 2         \* <a> elements per document

U_a_page == HTTP \o A_COM \o <<"/","d","i","r","/","p","a","g","e","?","x","=","1">>

ANCHORS == {a_element(L_Abt, H_about),
            a_element(L_Abt, U_about),
            a_element(L_Contact, <<"c","o","n","t","a","c","t">>),
            a_element(<<"U","p">>, <<".",".","/","u","p">>),
            a_element(<<"Q","u","e","r","y">>, <<"?","q","=","1">>),
            a_element(<<"C","d","n">>, <<"/","/","a",".","c","o","m","/","p">>),
            a_element(<<"T","o","p">>, <<"#","t","o","p">>),
            a_element(L_Js, H_javascript),
            a_element(L_Js, <<"J","a","v","a","S","c","r","i","p","t",":","v","o","i","d","(","0",")">>),
            a_element(<<"M","a","i","l">>, <<"m","a","i","l","t","o",":","a","@","b">>),
            a_element(L_Bad, H_bad_ipv6),
            a_element(<<>>, H_about),
            a_element(L_Abt, <<>>)}

BASES == {None, <<"/","f","o","o","/">>, <<" ","h","t","t","p","s",":","/","/","a",".","c","o","m","/","b","a","s","e","/","p","a","g","e"," ">>}
PAGE_URLS == {U_root, U_a_page}

DOCS == {[base |-> b, body |-> q] :
            b \in BASES, q \in UNION {[1..n -> ANCHORS] : n \in 0..MaxAnchors}}

InitExtract ==
    /\ pc = "idle"
    /\ pool = <<>>
    /\ args = NoArgs
    /\ ret = None
    /\ zf = <<>>
    /\ i = 0
    /\ calls = <<>>
    /\ rows = <<>>
    /\ parser = None

\* line 575: one call of extract_menu_candidates_from_html
CallExtract ==
    /\ pc = "idle"
    /\ \E html \in DOCS, current_url \in PAGE_URLS :
          /\ args' = [op |-> "extract_menu_candidates_from_html",
                      html |-> html, current_url |-> current_url]
          /\ ret' = extract_menu_candidates_from_html(html, current_url)
    /\ pc' = "returned"
    /\ UNCHANGED <<pool, zf, i, calls, rows, parser>>

\* the builder takes the candidates and goes on to the next entry
NextPage ==
    /\ pc = "returned"
    /\ pc' = "idle"
    /\ args' = NoArgs
    /\ ret' = None
    /\ UNCHANGED <<pool, zf, i, calls, rows, parser>>

NextExtract == CallExtract \/ NextPage

SpecExtract == InitExtract /\ [][NextExtract]_vars

\* scheme + host (+ path)
is_absolute(u) == urlparse(u).scheme # <<>> /\ urlparse(u).netloc # <<>>

\* hrefs that are relative, javascript: in any letter case, or fragment-only
needs_resolving(href) ==
    \/ urlparse(href).scheme = <<>>
    \/ startswith(lower(href), JAVASCRIPT)
    \/ startswith(href, <<"#">>)

\* C9: every candidate emitted by extract_menu_candidates_from_html, for any
\* document (with or without a <base href>, possibly relative) and any absolute
\* page URL, has an absolute URL; no href that is relative, javascript: (in any
\* letter case) or fragment-only is the URL of a candidate.
C9_CandidatesAbsolute ==
    pc = "returned" =>
        \A k \in DOMAIN ret.cands :
            /\ is_absolute(ret.cands[k][2])
            /\ \A a \in DOMAIN args.html.body :
                  needs_resolving(args.html.body[a].href)
                      => ret.cands[k][2] # args.html.body[a].href

(***************************************************************************)
(* Report building: parse_saz_data (scripts/saz_parser.py).  A row keeps   *)
(* the fields that depend on the menu pool and on the request line; the    *)
(* parameter, verdict and time columns are functions of the session's own  *)
(* entries and are left out.  Console output is not part of the state.     *)
(***************************************************************************)
\* int(mnum)
digit_value(c) == CHOOSE k \in 0..9 : <<"0","1","2","3","4","5","6","7","8","9">>[k + 1] = c
RECURSIVE int_of(_)
int_of(digits) ==
    IF digits = <<>> THEN 0
    ELSE 10 * int_of(SubSeq(digits, 1, Len(digits) - 1)) + digit_value(digits[Len(digits)])

\* str(n) for n >= 0
RECURSIVE str_of(_)
str_of(n) ==
    IF n < 10 THEN <<(<<"0","1","2","3","4","5","6","7","8","9">>)[n + 1]>>
    ELSE str_of(n \div 10) \o str_of(n % 10)

\* saz_parser.py line 50
is_request_name(n) == startswith(n, RAW_PREFIX) /\ endswith(n, C_SUFFIX)
\* line 51 / line 56: re.search(r'raw/(\d+)_c\.txt$', x); '' when there is no match
req_mnum(reqm) == mnum_stem(SubSeq(reqm, 1, Len(reqm) - Len(C_SUFFIX)))

\* line 51: .group(1) of no match raises AttributeError
sort_raises(z) == \E k \in DOMAIN z : is_request_name(z[k].name) /\ req_mnum(z[k].name) = <<>>

\* lines 50-51: sorted(..., key=int(number)); sorted is stable
RECURSIVE insert_by_number(_, _)
insert_by_number(sorted, n) ==
    IF sorted = <<>> THEN <<n>>
    ELSE IF int_of(req_mnum(sorted[Len(sorted)])) <= int_of(req_mnum(n)) THEN Append(sorted, n)
    ELSE Append(insert_by_number(SubSeq(sorted, 1, Len(sorted) - 1), n), sorted[Len(sorted)])
RECURSIVE sorted_by_number(_)
sorted_by_number(names) ==
    IF names = <<>> THEN <<>>
    ELSE insert_by_number(sorted_by_number(SubSeq(names, 1, Len(names) - 1)), names[Len(names)])
req_members(z) == sorted_by_number(SelectSeq(namelist(z), is_request_name))

\* filters.py lines 5-7
ASSET_EXTS ==
    {<<".","j","s">>, <<".","c","s","s">>, <<".","m","a","p">>, <<".","p","n","g">>, <<".","j","p","g">>, <<".","j","p","e","g">>, <<".","g","i","f">>, <<".","s","v","g">>, <<".","i","c","o">>, <<".","w","e","b","p">>,
     <<".","w","o","f","f">>, <<".","w","o","f","f","2">>, <<".","t","t","f">>, <<".","e","o","t">>, <<".","o","t","f">>, <<".","p","d","f">>, <<".","z","i","p">>, <<".","r","a","r">>, <<".","7","z">>, <<".","m","p","4">>,
     <<".","m","p","3">>, <<".","w","a","v">>}
ASSET_PATH_KWS == {<<"/","j","s","/">>, <<"/","s","c","r","i","p","t","s","/">>, <<"/","s","t","a","t","i","c","/">>, <<"/","a","s","s","e","t","s","/">>, <<"/","c","o","m","m","o","n","/","j","s","/">>, <<"/","f","o","n","t","s","/">>}
ASSET_CTYPES == {<<"j","a","v","a","s","c","r","i","p","t">>, <<"t","e","x","t","/","c","s","s">>, <<"i","m","a","g","e","/">>, <<"f","o","n","t","/">>, <<"o","c","t","e","t","-","s","t","r","e","a","m">>}

\* os.path.splitext(path)[1]: from the last dot of the last component, unless only dots precede it
RECURSIVE last_index(_, _)
last_index(s, c) ==
    IF s = <<>> THEN 0
    ELSE IF s[Len(s)] = c THEN Len(s)
    ELSE last_index(SubSeq(s, 1, Len(s) - 1), c)
ext_from(base, dot) ==
    IF dot > 0 /\ (\E k \in 1..(dot - 1) : base[k] # ".") THEN Tail_from(base, dot) ELSE <<>>
ext_of_base(base) == ext_from(base, last_index(base, "."))
splitext_ext(path) == ext_of_base(Tail_from(path, last_index(path, "/") + 1))

\* filters.py lines 9-21: the first of the two names that is readable and has a Content-Type
ctype_at(z, name) ==
    IF in_namelist(z, name) /\ read(z, name).readable THEN strip(lower(read(z, name).ctype))
    ELSE <<>>
response_ctype(z, mnum) ==
    or_else(ctype_at(z, RAW_PREFIX \o mnum \o S_SUFFIX),
            ctype_at(z, RAW_PREFIX \o format_04d(mnum) \o S_SUFFIX))

\* filters.py lines 23-38
asset_by_path(path) ==
    \/ splitext_ext(path) \in ASSET_EXTS
    \/ \E kw \in ASSET_PATH_KWS : contains(path, kw)
asset_by_ctype(ctype) == \E kw \in ASSET_CTYPES : contains(ctype, kw)
is_probable_asset(url, z, mnum) ==
    asset_by_path(lower(urlparse(url).path)) \/ asset_by_ctype(response_ctype(z, mnum))

\* saz_parser.py line 66
request_url(req) ==
    IF startswith(req.target, <<"h","t","t","p">>) THEN req.target
    ELSE <<"h","t","t","p","s",":","/","/">> \o req.Host \o req.target

\* line 88: f"{score:.1f}" if score else '' (round half to even on the tenths)
tenths_up(q, r, d) == IF 2 * r > d \/ (2 * r = d /\ q % 2 = 1) THEN q + 1 ELSE q
tenths(score) == tenths_up((10 * score.n) \div score.d, (10 * score.n) % score.d, score.d)
format_tenths(t) == str_of(t \div 10) \o <<".">> \o str_of(t % 10)
format_1f(score) == IF score.n = 0 THEN <<>> ELSE format_tenths(tenths(score))

\* menu_pool is None (line 29, line 48) or the built pool
\* line 84: a pool that is None or empty switches matching off
no_pool == [built |-> FALSE, hosts |-> <<>>]
built_pool(p) == [built |-> TRUE, hosts |-> p]
pool_is_always_usable(menu_pool) == TRUE
pool_is_usable(menu_pool) == menu_pool.built /\ DOMAIN menu_pool.hosts # {}
\* line 83: the guard of the call
calls_resolver(menu_pool, enable_menu_label) == enable_menu_label /\ pool_is_usable(menu_pool)
\* line 86: urlparse of the referer raises ValueError inside _hostkey
match_raises(url, referer) == url # <<>> /\ referer # <<>> /\ urlparse_raises(referer)

row(method, url, menu_label, match_score) ==
    [Method |-> method, url |-> url, menu_label |-> menu_label, match_score |-> match_score]
\* lines 86-88
labelled(method, url, best) ==
    row(method, url, IF best.label = None THEN <<>> ELSE best.label, format_1f(best.score))
\* lines 83-90
row_of(req, url, menu_pool, enable_menu_label, menu_threshold) ==
    IF calls_resolver(menu_pool, enable_menu_label) /\ ~match_raises(url, req.Referer)
    THEN labelled(req.method, url, best_menu_for_url(url, menu_pool.hosts, req.Referer, menu_threshold))
    ELSE row(req.method, url, <<>>, <<>>)

\* what one iteration of the request loop does: "continue" leaves the iteration at
\* lines 58, 64 or 110, "asset" and "row" reach the progress update of line 113
\* called: best_menu_for_url was called in the iteration (line 85)
skip_request == [kind |-> "continue", row |-> row(<<>>, <<>>, <<>>, <<>>), called |-> FALSE]
asset_request == [kind |-> "asset", row |-> row(<<>>, <<>>, <<>>, <<>>), called |-> FALSE]
row_request(r, called) == [kind |-> "row", row |-> r, called |-> called]

\* lines 65-107
handle_url(z, mnum, req, url, menu_pool, enable_menu_label, menu_threshold) ==
    IF urlparse_raises(url) THEN skip_request
    ELSE IF is_probable_asset(url, z, mnum) THEN asset_request
    ELSE row_request(row_of(req, url, menu_pool, enable_menu_label, menu_threshold),
                     calls_resolver(menu_pool, enable_menu_label))
\* lines 61-64
handle_request(z, mnum, req, menu_pool, enable_menu_label, menu_threshold) ==
    IF ~req.readable THEN skip_request
    ELSE IF lower(req.method) = <<"c","o","n","n","e","c","t">> \/ req.target = <<>> THEN skip_request
    ELSE handle_url(z, mnum, req, request_url(req), menu_pool, enable_menu_label, menu_threshold)
\* lines 56-110
handle_member(z, reqm, menu_pool, enable_menu_label, menu_threshold) ==
    IF req_mnum(reqm) = <<>> THEN skip_request
    ELSE handle_request(z, req_mnum(reqm), read(z, reqm), menu_pool, enable_menu_label, menu_threshold)

\* line 37: the builder is always given the callback _pool_cb, so its finally clause
\* evaluates i % progress_every for every entry after the first
build_raises(z, progress_every) ==
    \E k \in 1..Len(names_of(z)) : progress_raises(TRUE, k, progress_every)
\* lines 29-48; save_fails: save_menu_candidates and outdir are given and writing the
\* JSON file (lines 41-45) raises OSError
menu_pool_of(z, enable_menu_label, progress_every, save_fails) ==
    IF enable_menu_label /\ ~build_raises(z, progress_every) /\ ~save_fails
    THEN built_pool(build_candidate_pool_from_saz(z))
    ELSE no_pool
\* progress_utils.py lines 8-10, called from line 113
update_raises(show_progress, idx, progress_every) == progress_raises(show_progress, idx, progress_every)

(***************************************************************************)
(* Specification SpecParse: parse_saz_data on one archive, one request     *)
(* entry per step.                                                         *)
(***************************************************************************)
MaxRequests == 2        \* sessions in the archives given to parse_saz_data

T_connect ==
    <<entry(<<"r","a","w","/","0","0","1","0","_","c",".","t","x","t">>, request_by(<<"C","O","N","N","E","C","T">>, <<"e","x",".","c","o","m",":","4","4","3">>, <<"e","x",".","c","o","m",":","4","4","3">>, <<>>)),
      entry(<<"r","a","w","/","0","0","1","0","_","s",".","t","x","t">>, response(<<>>, NoDoc))>>
T_lost ==
    <<entry(<<"r","a","w","/","0","0","1","1","_","c",".","t","x","t">>, unreadable)>>
T_named ==
    <<entry(<<"r","a","w","/","x","_","c",".","t","x","t">>, request(<<"/">>, EX_COM, <<>>))>>
T_script ==
    <<entry(<<"r","a","w","/","1","2","_","c",".","t","x","t">>, request_by(<<"P","O","S","T">>, <<"/","a","p","i","/","d","a","t","a">>, EX_COM, U_root)),
      entry(<<"r","a","w","/","0","0","1","2","_","s",".","t","x","t">>, response(<<"A","p","p","l","i","c","a","t","i","o","n","/","J","a","v","a","S","c","r","i","p","t">>, NoDoc))>>

PARSE_SESSIONS == {T_home, T_about, T_other, T_image, T_connect, T_lost, T_named, T_script}

\* keyword arguments of parse_saz_data as saz2xlsx.py passes them, and whether the
\* candidate file asked for cannot be written
parse_args(enable_menu_label, show_progress, progress_every, save_fails) ==
    [op |-> "parse_saz_data", enable_menu_label |-> enable_menu_label,
     menu_threshold |-> DEFAULT_THRESHOLD, show_progress |-> show_progress,
     progress_every |-> progress_every, save_fails |-> save_fails]
PARSE_OPTIONS ==
    {parse_args(TRUE, TRUE, 200, FALSE), parse_args(TRUE, TRUE, 2, FALSE),
     parse_args(TRUE, TRUE, 0, FALSE), parse_args(TRUE, FALSE, 0, FALSE),
     parse_args(FALSE, TRUE, 0, FALSE), parse_args(TRUE, TRUE, -2, FALSE),
     parse_args(FALSE, FALSE, 200, FALSE), parse_args(TRUE, TRUE, 200, TRUE),
     parse_args(TRUE, FALSE, 2, TRUE)}

\* the calls parse_saz_data makes: line 37, and line 85 in the iteration of request idx
pool_call == [op |-> "build_candidate_pool_from_saz", idx |-> 0]
resolver_call(idx) == [op |-> "best_menu_for_url", idx |-> idx]

InitParse ==
    /\ pc = "build"
    /\ pool = no_pool
    /\ \E q \in distinct_seqs(PARSE_SESSIONS, MaxRequests) : zf = archive_of(q)
    /\ args \in PARSE_OPTIONS
    /\ ret = None
    /\ i = 1
    /\ calls = <<>>
    /\ rows = <<>>
    /\ parser = None

\* lines 29-48: the pool is built, or left None when labelling is off or the build raises
BuildPool ==
    /\ pc = "build"
    /\ pool' = menu_pool_of(zf, args.enable_menu_label, args.progress_every, args.save_fails)
    /\ calls' = IF args.enable_menu_label THEN Append(calls, pool_call) ELSE calls
    /\ pc' = "list"
    /\ UNCHANGED <<args, ret, zf, i, rows, parser>>

\* lines 50-53; an exception here is caught by lines 117-119, which return []
ListRequests ==
    /\ pc = "list"
    /\ IF sort_raises(zf)
       THEN pc' = "failed" /\ ret' = <<>>
       ELSE pc' = "loop" /\ ret' = ret
    /\ UNCHANGED <<pool, args, zf, i, calls, rows, parser>>

\* lines 55-113: one iteration; the progress update of line 113 is outside the inner try
HandleRequest ==
    /\ pc = "loop"
    /\ i <= Len(req_members(zf))
    /\ rows' = IF handle_member(zf, req_members(zf)[i], pool, args.enable_menu_label,
                                args.menu_threshold).kind = "row"
               THEN Append(rows, handle_member(zf, req_members(zf)[i], pool,
                                               args.enable_menu_label, args.menu_threshold).row)
               ELSE rows
    /\ IF /\ handle_member(zf, req_members(zf)[i], pool, args.enable_menu_label,
                           args.menu_threshold).kind # "continue"
          /\ update_raises(args.show_progress, i, args.progress_every)
       THEN pc' = "failed" /\ ret' = <<>> /\ i' = i
       ELSE pc' = "loop" /\ ret' = ret /\ i' = i + 1
    /\ calls' = IF handle_member(zf, req_members(zf)[i], pool, args.enable_menu_label,
                                 args.menu_threshold).called
                THEN Append(calls, resolver_call(i))
                ELSE calls
    /\ UNCHANGED <<pool, args, zf, parser>>

\* line 120
ReturnRows ==
    /\ pc = "loop"
    /\ i > Len(req_members(zf))
    /\ ret' = rows
    /\ pc' = "done"
    /\ UNCHANGED <<pool, args, zf, i, calls, rows, parser>>

NextParse == BuildPool \/ ListRequests \/ HandleRequest \/ ReturnRows
SpecParse == InitParse /\ [][NextParse]_vars

\* the rows of the report when nothing interrupts the request loop
RECURSIVE collect_rows(_, _, _, _, _)
collect_rows(z, members, menu_pool, enable_menu_label, menu_threshold) ==
    IF members = <<>> THEN <<>>
    ELSE (IF handle_member(z, members[1], menu_pool, enable_menu_label, menu_threshold).kind = "row"
          THEN <<handle_member(z, members[1], menu_pool, enable_menu_label, menu_threshold).row>>
          ELSE <<>>)
         \o collect_rows(z, Tail(members), menu_pool, enable_menu_label, menu_threshold)
\* the pool and the rows that parse_saz_data gives with progress_every = 200
pool_with_200(z, a) == menu_pool_of(z, a.enable_menu_label, 200, a.save_fails)
rows_with_200(z, a) ==
    IF sort_raises(z) THEN <<>>
    ELSE collect_rows(z, req_members(z), pool_with_200(z, a), a.enable_menu_label, a.menu_threshold)
parse_returned == pc \in {"done", "failed"}

\* C11: progress_every only changes how often progress is reported - for every archive
\* and every integer given as progress_every, the pool built for the report and the rows
\* returned by parse_saz_data are the same as with progress_every = 200.
C11_ProgressEveryOnlyCadence ==
    parse_returned => (pool = pool_with_200(zf, args) /\ ret = rows_with_200(zf, args))

\* the pool phase of lines 31-45 ended in the except clause of lines 46-48
pool_build_raised(z, a) ==
    a.enable_menu_label /\ (build_raises(z, a.progress_every) \/ a.save_fails)
\* the request entry reqm is a readable request that is neither CONNECT nor an asset
reportable(z, reqm) ==
    /\ read(z, reqm).readable
    /\ lower(read(z, reqm).method) # <<"c","o","n","n","e","c","t">>
    /\ read(z, reqm).target # <<>>
    /\ ~is_probable_asset(request_url(read(z, reqm)), z, req_mnum(reqm))
unlabelled_row(req) == row(req.method, request_url(req), <<>>, <<>>)
RECURSIVE unlabelled_rows(_, _)
unlabelled_rows(z, members) ==
    IF members = <<>> THEN <<>>
    ELSE (IF reportable(z, members[1]) THEN <<unlabelled_row(read(z, members[1]))>> ELSE <<>>)
         \o unlabelled_rows(z, Tail(members))

\* C12: when building the pool raises during parse_saz_data, labelling is switched off
\* and the report goes on - every request that is neither CONNECT nor an asset still
\* gets its row, with empty label and empty score (archives of numbered sessions).
C12_ReportContinuesUnlabelled ==
    (parse_returned /\ ~sort_raises(zf) /\ pool_build_raised(zf, args))
    => ret = unlabelled_rows(zf, req_members(zf))

\* the same law away from progress_every = 0: it holds there
C12_HoldsForNonZeroEvery ==
    (parse_returned /\ ~sort_raises(zf) /\ pool_build_raised(zf, args) /\ args.progress_every # 0)
    => ret = unlabelled_rows(zf, req_members(zf))
C12_NonZeroCase ==
    /\ pc = "done"
    /\ pool_build_raised(zf, args)
    /\ args.progress_every # 0
    /\ Len(ret) >= 2

(***************************************************************************)
(* Specification SpecTree: extract_menu_candidates_from_html on a document *)
(* with menus, the parser fed one element per step.                        *)
(***************************************************************************)
MaxMenus == 2           \* menu blocks per document
MaxTags == 3            \* elements of the documents made of arbitrary tags

NAV == start_tag("nav", <<"g","n","b">>)
UL == start_tag("ul", <<>>)
UL_MENU == start_tag("ul", <<"M","a","i","n","-","M","e","n","u">>)
UL_SUB == start_tag("ul", <<"s","u","b","m","e","n","u">>)
OL_BREAD == start_tag("ol", <<"b","r","e","a","d","c","r","u","m","b">>)
LI == start_tag("li", <<>>)
A_about == a_element(<<"A","b","o","u","t">>, H_about)
A_home == a_element(<<"H","o","m","e">>, <<"/">>)
A_shop == a_element(<<"S","h","o","p">>, <<"/","s","h","o","p">>)
A_item == a_element(<<" ","I","t","e","m"," ">>, <<"/","s","h","o","p","/","1">>)
A_contact == a_element(<<"C","o","n","t","a","c","t">>, <<"c","o","n","t","a","c","t">>)
A_heading == a_element(<<"C","o","m","p","a","n","y">>, <<>>)
A_intro == a_element(<<"I","n","t","r","o">>, <<"/","i","n","t","r","o">>)

\* <nav class="gnb"><ul><li><a href="/about">About</a></li></ul></nav>
B_gnb == <<NAV, UL, LI, A_about, end_tag("li"), end_tag("ul"), end_tag("nav")>>
\* a hinted list whose first item holds a sub-list without hint
B_nested ==
    <<UL_MENU, LI, A_shop, UL, LI, A_item, end_tag("li"), end_tag("ul"), end_tag("li"),
      LI, A_contact, end_tag("li"), end_tag("ul")>>
\* a hinted list whose first item holds a hinted sub-list
B_deep ==
    <<OL_BREAD, LI, A_shop, UL_SUB, LI, A_item, end_tag("li"), end_tag("ul"), end_tag("li"),
      LI, A_contact, end_tag("li"), end_tag("ol")>>
\* a link directly inside <nav>, before the list
B_loose == <<NAV, A_home, UL, LI, A_about, end_tag("li"), end_tag("ul"), end_tag("nav")>>
\* a list without hint outside <nav>
B_plain == <<UL, LI, A_about, end_tag("li"), LI, A_intro, end_tag("li"), end_tag("ul")>>
\* an item whose link has no href, heading a sub-list
B_heading ==
    <<NAV, UL, LI, A_heading, UL, LI, A_intro, end_tag("li"), end_tag("ul"), end_tag("li"),
      end_tag("ul"), end_tag("nav")>>
\* end tags without start tags
B_stray == <<end_tag("li"), end_tag("ul"), end_tag("nav"), A_about>>
\* a menu left open
B_open == <<NAV, LI, A_intro>>
\* a hinted <ol> with a </ul> in the middle
B_crossed ==
    <<OL_BREAD, LI, A_about, end_tag("li"), end_tag("ul"), LI, A_contact, end_tag("li"),
      end_tag("ol")>>
\* an item with two links, the first without href
B_two == <<NAV, LI, A_heading, A_intro, end_tag("li"), end_tag("nav")>>
\* a menu link whose href cannot be parsed
B_bad == <<NAV, LI, a_element(L_Bad, H_bad_ipv6), end_tag("li"), end_tag("nav")>>

BLOCKS ==
    {B_gnb, B_nested, B_deep, B_loose, B_plain, B_heading, B_stray, B_open, B_crossed,
     B_two, B_bad}
TAGS == {NAV, UL, UL_MENU, LI, A_home, end_tag("nav"), end_tag("ul"), end_tag("li")}

\* all sequences over the set S of length at most n
RECURSIVE seqs_upto(_, _)
seqs_upto(S, n) ==
    IF n = 0 THEN {<<>>}
    ELSE seqs_upto(S, n - 1) \cup {Append(q, x) : q \in seqs_upto(S, n - 1), x \in S}

MENU_BODIES ==
    {archive_of(q) : q \in distinct_seqs(BLOCKS, MaxMenus)} \cup seqs_upto(TAGS, MaxTags)

InitTree ==
    /\ pc = "feed"
    /\ pool = <<>>
    /\ \E body \in MENU_BODIES :
          args = [op |-> "extract_menu_candidates_from_html",
                  html |-> [base |-> None, body |-> body], current_url |-> U_root]
    /\ ret = None
    /\ zf = <<>>
    /\ i = 1
    /\ calls = <<>>
    /\ rows = <<>>
    /\ parser = _MenuTreeParser

\* lines 334-351: the parser meets a start tag
HandleStartTag ==
    /\ pc = "feed"
    /\ i <= Len(args.html.body)
    /\ args.html.body[i].tag # "a" /\ ~args.html.body[i].closing
    /\ parser' = handle_starttag(parser, args.html.body[i])
    /\ i' = i + 1
    /\ UNCHANGED <<pc, pool, args, ret, zf, calls, rows>>

\* lines 357-379: the parser meets an end tag
HandleEndTag ==
    /\ pc = "feed"
    /\ i <= Len(args.html.body)
    /\ args.html.body[i].tag # "a" /\ args.html.body[i].closing
    /\ parser' = handle_endtag(parser, args.html.body[i])
    /\ i' = i + 1
    /\ UNCHANGED <<pc, pool, args, ret, zf, calls, rows>>

\* lines 346-350, 353-355, 358-370: the parser meets an <a> element
HandleAnchor ==
    /\ pc = "feed"
    /\ i <= Len(args.html.body)
    /\ args.html.body[i].tag = "a"
    /\ parser' = handle_anchor(parser, args.html.body[i])
    /\ i' = i + 1
    /\ UNCHANGED <<pc, pool, args, ret, zf, calls, rows>>

\* lines 423 and 441-472: the tree is flattened and joined with the other candidates
Combine ==
    /\ pc = "feed"
    /\ i > Len(args.html.body)
    /\ ret' = candidates_from(parser, args.html, args.current_url)
    /\ pc' = "returned"
    /\ UNCHANGED <<pool, args, zf, i, calls, rows, parser>>

NextTree == HandleStartTag \/ HandleEndTag \/ HandleAnchor \/ Combine
SpecTree == InitTree /\ [][NextTree]_vars

\* the call has returned a list
extracted == pc = "returned" /\ ~ret.raised
\* what the tree strategy emitted: entries [leaf, path, url]
emitted == _flatten_menu_tree(parser, args.current_url, args.html)

MaxDigits == 4          \* digits of the session numbers

\* the session numbers 1, 12, 123, ... with up to n digits
RECURSIVE numbers_upto(_)
numbers_upto(n) ==
    IF n = 0 THEN {} ELSE numbers_upto(n - 1) \cup {int_of(SubSeq(<<"1","2","3","4","5","6","7","8","9">>, 1, n))}
SESSION_NUMBERS == numbers_upto(MaxDigits) \cup {7, 40}

unpadded(n) == str_of(n)
padded(n) == zfill(str_of(n), 4)
numbered(n, pad) == IF pad THEN padded(n) ELSE unpadded(n)

\* a session: GET / on ex.com answered by the HTML document html
page_session(c_digits, s_digits, html) ==
    <<entry(RAW_PREFIX \o c_digits \o C_SUFFIX, request(<<"/">>, EX_COM, <<>>)),
      entry(RAW_PREFIX \o s_digits \o S_SUFFIX, response(CT_HTML, html))>>

PAGES == {D_home, D_about, D_based}

InitPair ==
    /\ pc = "scan"
    /\ pool = <<>>
    /\ \E n \in SESSION_NUMBERS, c_pad \in BOOLEAN, s_pad \in BOOLEAN, html \in PAGES :
          zf = page_session(numbered(n, c_pad), numbered(n, s_pad), html)
    /\ \E o \in PROGRESS_OPTIONS :
          args = [op |-> "build_candidate_pool_from_saz",
                  progress |-> o.progress, progress_every |-> o.progress_every]
    /\ ret = None
    /\ i = 1
    /\ calls = <<>>
    /\ rows = <<>>
    /\ parser = None

SpecPair == InitPair /\ [][NextPool]_vars

\* the archive holds a request entry and a response entry of the same session number
same_session(z) ==
    \E c \in DOMAIN z, s \in DOMAIN z :
        /\ is_request_name(z[c].name) /\ req_mnum(z[c].name) # <<>>
        /\ is_response_name(z[s].name) /\ mnum_of(z[s].name) # <<>>
        /\ int_of(req_mnum(z[c].name)) = int_of(mnum_of(z[s].name))

\* C14: request pairing tolerates a naming mismatch inside a session - a response
\* numbered in the unpadded or the 4-digit zero-padded scheme is paired with the request
\* of the same number whichever of the two schemes names the request (all four
\* combinations), so the page of the session is mined.
C14_PairingToleratesPadding ==
    (pc = "done" /\ same_session(zf)) => pool_get(ret, _hostkey(EX_COM)) # <<>>

\* the session's request is named like its response, or in the padded scheme
request_named_alike_or_padded(z) ==
    \E c \in DOMAIN z, s \in DOMAIN z :
        /\ is_request_name(z[c].name) /\ is_response_name(z[s].name)
        /\ mnum_of(z[s].name) # <<>>
        /\ req_mnum(z[c].name) \in {mnum_of(z[s].name), padded(int_of(mnum_of(z[s].name)))}

\* the three combinations that are paired
C14_PairedUnlessOnlyResponsePadded ==
    (pc = "done" /\ request_named_alike_or_padded(zf)) => pool_get(ret, _hostkey(EX_COM)) # <<>>

(***************************************************************************)
(* Tie-breaking of best_menu_for_url (checked under SpecMatch).            *)
(***************************************************************************)
\* the candidates of the query URL's host key, and those of the referer's host key
own_list == pool_get(pool, _hostkey(args.url))
referer_list ==
    IF args.referer_url \in {None, <<>>} \/ _hostkey(args.referer_url) = _hostkey(args.url)
    THEN <<>>
    ELSE pool_get(pool, _hostkey(args.referer_url))
\* the candidate list in the order of the claim, and its bonus-adjusted scores
ordered_list == own_list \o referer_list
ordered_scores == [k \in DOMAIN ordered_list |-> cand_score(args.url, ordered_list[k])]
\* position of the first candidate reaching the largest score of a non-empty family
first_max(scores) ==
    CHOOSE k \in DOMAIN scores :
        /\ \A m \in DOMAIN scores : RLe(scores[m], scores[k])
        /\ \A m \in 1..(k - 1) : RLt(scores[m], scores[k])
\* the result r is the candidate cs[k] with the score s
is_candidate(r, cand, s) ==
    /\ r.url = cand[2]
    /\ r.label \in {None, cand[1]}
    /\ REq(r.score, s)

\* the result r of a call on the non-empty list cs with the scores `scores`, whose first
\* maximal candidate is cs[k]
first_seen_wins(r, cs, scores, k) ==
    /\ RLt(Rat(0, 1), scores[k]) => r.url # None
    /\ r.url # None => is_candidate(r, cs[k], scores[k])
first_seen(r, cs, scores) == first_seen_wins(r, cs, scores, first_max(scores))

tie_across_hosts(r, own, cs, scores, k) ==
    /\ k <= Len(own)
    /\ <<r.label, r.url>> = cs[k]
    /\ \E m \in (Len(own) + 1)..Len(cs) : REq(scores[m], scores[k]) /\ cs[m][2] # r.url
mined_pages(z) ==
    {n \in RangeOf(names_of(z)) :
        _content_type_is_html(read(z, n).ctype) /\ ~entry_fails(z, n)}
page_request(z, n) == read(z, reqn_of(z, mnum_of(n)))
\* the host of the page: the absolute target's, else the Host header, normalised
page_host(req) ==
    _hostkey(IF startswith(req.target, <<"h","t","t","p">>) THEN req.target ELSE req.Host)
page_links(z, n) ==
    extract_menu_candidates_from_html(read(z, n).html, current_url_of(page_request(z, n))).cands
\* the candidate cand was discovered on a page of host h
discovered_on(z, cand, h) ==
    \E n \in mined_pages(z) :
        page_host(page_request(z, n)) = h /\ cand \in RangeOf(page_links(z, n))
\* every candidate of p is under the host of a page it was discovered on, and every
\* discovered candidate is under the host of its page
attributed_to_pages(p, z) ==
    /\ \A h \in DOMAIN p : \A k \in DOMAIN p[h] : discovered_on(z, p[h][k], h)
    /\ \A n \in mined_pages(z) :
          RangeOf(page_links(z, n)) \subseteq RangeOf(pool_get(p, page_host(page_request(z, n))))

\* C16: host attribution - every candidate of the pool is stored under the normalised
\* host key of the page it was discovered on (the request's Host, or its absolute
\* target), never under the host of the candidate's own URL: a link to another host on
\* a page of a.com appears only under the key a.com.
C16_StoredUnderPageHost ==
    pc = "done" => attributed_to_pages(ret, zf)

\* a pool whose only key is a.com, holding a link to ex.com found on a page of a.com
C16_Witness ==
    /\ pc = "done"
    /\ DOMAIN ret = {A_COM}
    /\ \E k \in DOMAIN ret[A_COM] : _hostkey(ret[A_COM][k][2]) = EX_COM

(***************************************************************************)
(* Claims on the menu tree parser (checked under SpecTree).                *)
(***************************************************************************)
is_container(t) == t.tag \in {"nav", "ul", "ol", "li"}
\* the positions of the elements open after the first k elements of body, outermost
\* first: a start tag opens an element, an end tag closes the innermost open element if
\* it has its name
RECURSIVE open_after(_, _)
close_innermost(body, open, t) ==
    IF open # <<>> /\ body[open[Len(open)]].tag = t.tag
    THEN SubSeq(open, 1, Len(open) - 1) ELSE open
open_with(body, open, k) ==
    IF ~is_container(body[k]) THEN open
    ELSE IF body[k].closing THEN close_innermost(body, open, body[k])
    ELSE Append(open, k)
open_after(body, k) ==
    IF k = 0 THEN <<>> ELSE open_with(body, open_after(body, k - 1), k)

\* every end tag of body closes the innermost open element, and none is left open
closes_innermost(body, open, t) == close_innermost(body, open, t) # open
matched_at(body, k) ==
    (is_container(body[k]) /\ body[k].closing)
        => closes_innermost(body, open_after(body, k - 1), body[k])
well_nested(body) ==
    /\ \A k \in DOMAIN body : matched_at(body, k)
    /\ open_after(body, Len(body)) = <<>>

is_hinted_list(t) == t.tag \in {"ul", "ol"} /\ _is_menu_ul(t.class)
opens_scope(t) == t.tag = "nav" \/ is_hinted_list(t)
open_hinted_lists(body, open) ==
    Cardinality({k \in DOMAIN open : is_hinted_list(body[open[k]])})
scope_is_open(body, open) == \E k \in DOMAIN open : opens_scope(body[open[k]])
\* the element at position m is the start tag of an <li> met while a scope is open
is_item(body, m) ==
    /\ body[m].tag = "li" /\ ~body[m].closing
    /\ scope_is_open(body, open_after(body, m - 1))
items_upto(body, k) == {m \in 1..k : is_item(body, m)}

\* the parser has been fed the first i - 1 elements of a well-nested document
feeding_well_nested == pc = "feed" /\ well_nested(args.html.body)

\* C17: menu-scope tracking - for every well-nested tag stream, every <li> start tag met
\* while a <nav> or a hinted <ul>/<ol> is still open creates a tree node; closing a
\* nested list without hint does not end the scope of the enclosing hinted list, so
\* menu_ul_depth always equals the number of hinted lists currently open.
C17_ScopeTracksOpenLists ==
    feeding_well_nested =>
        /\ parser.menu_ul_depth
              = open_hinted_lists(args.html.body, open_after(args.html.body, i - 1))
        /\ Len(parser.nodes) = Cardinality(items_upto(args.html.body, i - 1))

\* the items among the open elements, outermost first
open_items(body, open) == SelectSeq(open, LAMBDA m : is_item(body, m))
\* the innermost open <li> after the first k elements, 0 when none is open
innermost_li(body, open) ==
    IF \E k \in DOMAIN open : body[open[k]].tag = "li"
    THEN open[CHOOSE k \in DOMAIN open :
                 /\ body[open[k]].tag = "li"
                 /\ \A j \in (k + 1)..Len(open) : body[open[j]].tag # "li"]
    ELSE 0
\* the links of the item at position m: the <a> elements with a text whose innermost
\* enclosing <li> is that item
links_of(body, m) ==
    {k \in DOMAIN body : /\ body[k].tag = "a" /\ strip(body[k].label) # <<>>
                         /\ innermost_li(body, open_after(body, k - 1)) = m}
first_of(S) == CHOOSE k \in S : \A j \in S : k <= j
\* the label of the item: the text of its first link; its href: the first href of its links
item_label(body, m) ==
    IF links_of(body, m) = {} THEN <<>> ELSE strip(body[first_of(links_of(body, m))].label)
linked(body, S) == {k \in S : strip(body[k].href) # <<>>}
item_href(body, m) ==
    IF linked(body, links_of(body, m)) = {} THEN <<>>
    ELSE strip(body[first_of(linked(body, links_of(body, m)))].href)
\* the labels of the labelled items enclosing the item at position m, outermost first,
\* followed by its own
labels_of(body, ms) == SelectSeq([k \in DOMAIN ms |-> item_label(body, ms[k])], LAMBDA x : x # <<>>)
document_path(body, m) ==
    path_label(labels_of(body, Append(open_items(body, open_after(body, m - 1)), m)))
\* the candidates a document should give: (path-label, URL) of its items with label and href
document_candidates(html, current_url) ==
    {<<document_path(html.body, m),
       _resolve_candidate_url(item_href(html.body, m), current_url, html)>> :
        m \in {n \in items_upto(html.body, Len(html.body)) :
                  /\ item_label(html.body, n) # <<>>
                  /\ _resolve_candidate_url(item_href(html.body, n), current_url, html) # <<>>}}

path_labels_follow_document(flat, html, current_url) ==
    RangeOf(results_of(flat)) \subseteq document_candidates(html, current_url)
stack_follows_open_items(p, body, open) ==
    open_items(body, open) = <<>> => p.stack = <<0>>

\* C18: path-label ancestry - for every well-nested document the path-label of each tree
\* candidate is made of the labels of the labelled <li> elements that enclose its own
\* <li> in the document, outermost first, followed by its own label; whenever no in-scope
\* <li> is open the node stack holds only the root, so the items of a later menu are never
\* nested under a node of an earlier <li> that is already closed.
C18_PathLabelAncestry ==
    /\ feeding_well_nested
          => stack_follows_open_items(parser, args.html.body, open_after(args.html.body, i - 1))
    /\ (extracted /\ well_nested(args.html.body))
          => path_labels_follow_document(emitted, args.html, args.current_url)

\* no list without hint is nested inside a hinted list
no_plain_list_in_hinted(body) ==
    \A k \in DOMAIN body :
        (body[k].tag \in {"ul", "ol"} /\ ~body[k].closing /\ ~is_hinted_list(body[k]))
            => open_hinted_lists(body, open_after(body, k - 1)) = 0
\* the same law on the documents that avoid such nesting: it holds there
C18_HoldsWithoutPlainNesting ==
    no_plain_list_in_hinted(args.html.body) => C18_PathLabelAncestry
C17_HoldsWithoutPlainNesting ==
    no_plain_list_in_hinted(args.html.body) => C17_ScopeTracksOpenLists

root_is_unset(p) == p.root.label = <<>> /\ p.root.href = <<>>
\* C19: the root node of the menu tree never has a label or an href - after the parser
\* has processed any tag stream, also one with an <a> inside <nav> or a hinted list but
\* outside any <li>, root.label and root.href are still unset.
C19_RootStaysUnset ==
    pc = "feed" => root_is_unset(parser)

\* what the results depend on: the walk starts at the children of the root, so the label
\* and href of the root never reach a candidate
tree_ignores_root(p, html, current_url) ==
    _flatten_menu_tree([p EXCEPT !.root = _MenuNode(0)], current_url, html)
        = _flatten_menu_tree(p, current_url, html)
C19_RootNeverEmitted ==
    pc = "feed" => tree_ignores_root(parser, args.html, args.current_url)

\* the positions of the elements not yet closed after the first k elements of body, in
\* any tag stream: an end tag closes the last open element of its name, if there is one
RECURSIVE unclosed_after(_, _)
named_like(body, open, t) == {k \in DOMAIN open : body[open[k]].tag = t.tag}
without(open, n) == SubSeq(open, 1, n - 1) \o SubSeq(open, n + 1, Len(open))
close_last(body, open, t) ==
    IF named_like(body, open, t) = {} THEN open
    ELSE without(open, CHOOSE n \in named_like(body, open, t) :
                           \A k \in named_like(body, open, t) : k <= n)
unclosed_with(body, open, k) ==
    IF ~is_container(body[k]) THEN open
    ELSE IF body[k].closing THEN close_last(body, open, body[k])
    ELSE Append(open, k)
unclosed_after(body, k) ==
    IF k = 0 THEN <<>> ELSE unclosed_with(body, unclosed_after(body, k - 1), k)

\* the end tag at position k has no open element of its name to close
is_unmatched(body, k) == named_like(body, unclosed_after(body, k - 1), body[k]) = {}
counters_are_sound(p) ==
    /\ p.nav_depth >= 0 /\ p.menu_ul_depth >= 0
    /\ p.stack # <<>> /\ p.stack[1] = 0
UnmatchedEndTag == HandleEndTag /\ is_unmatched(args.html.body, i)

\* C20: robustness of the tag state machine - after any sequence of start and end tags,
\* balanced or not, nav_depth >= 0, menu_ul_depth >= 0 and the node stack is non-empty
\* with the root at its bottom; an end tag </nav>, </ul>, </ol> or </li> that has no
\* matching open element leaves the counters and the stack unchanged.
C20_TagMachineRobust ==
    /\ [](pc = "feed" => counters_are_sound(parser))
    /\ [][UnmatchedEndTag => parser' = parser]_vars

\* the first half alone: the counters never go below zero and the root stays at the bottom
C20_CountersSound == pc = "feed" => counters_are_sound(parser)
\* what the guards of handle_endtag give: an end tag met while its counter is zero, or
\* while the stack holds only the root, changes nothing
counter_is_zero(p, t) ==
    \/ t.tag = "nav" /\ p.nav_depth = 0
    \/ t.tag \in {"ul", "ol"} /\ p.menu_ul_depth = 0
    \/ t.tag = "li" /\ (Len(p.stack) = 1 \/ ~in_scope(p))
C20_GuardedByCounters ==
    [][(HandleEndTag /\ counter_is_zero(parser, args.html.body[i])) => parser' = parser]_vars

(***************************************************************************)
(* Onclick functions (_find_function_body, lines 167-188).                 *)
(* The inline scripts of a document are a sequence of function definitions *)
(* and of marks where one <script> block ends and the next begins.         *)
(***************************************************************************)
\* function name(...) { body }
declaration(name, body) == [form |-> "declaration", name |-> name, body |-> body]
\* name = function(...) { body }
expression(name, body) == [form |-> "expression", name |-> name, body |-> body]
\* const name = (...) => { body }
arrow(name, body) == [form |-> "arrow", name |-> name, body |-> body]
\* </script><script>
NEXT_BLOCK == [form |-> "block", name |-> <<>>, body |-> <<>>]

\* line 162 and line 181: the contents of the <script> blocks, in document order
RECURSIVE _SCRIPT_BLOCKS(_)
block_until(src, k) == SubSeq(src, 1, k - 1)
_SCRIPT_BLOCKS(src) ==
    IF \E k \in DOMAIN src : src[k] = NEXT_BLOCK
    THEN <<block_until(src, first_index(src, NEXT_BLOCK))>>
             \o _SCRIPT_BLOCKS(SubSeq(src, first_index(src, NEXT_BLOCK) + 1, Len(src)))
    ELSE <<src>>

\* line 174 (re.I): function\s+name\s*\( - the whole name, in any case
pat1(name, d) == d.form = "declaration" /\ lower(d.name) = lower(name)
\* line 176 (re.I): name\s*=\s*function - nothing anchors the start of the name
pat2(name, d) == d.form = "expression" /\ endswith(lower(d.name), lower(name))
\* line 178 (re.I): (?:const|let|var)\s+name\s*=
pat3(name, d) == d.form = "arrow" /\ lower(d.name) = lower(name)
pat_matches(n, name, d) ==
    IF n = 1 THEN pat1(name, d) ELSE IF n = 2 THEN pat2(name, d) ELSE pat3(name, d)

\* pat.search(blk): the leftmost match of the pattern in the block, 0 when there is none
search(n, name, blk) ==
    IF \E k \in DOMAIN blk : pat_matches(n, name, blk[k])
    THEN CHOOSE k \in DOMAIN blk :
            /\ pat_matches(n, name, blk[k])
            /\ \A j \in 1..(k - 1) : ~pat_matches(n, name, blk[j])
    ELSE 0
\* lines 183-187: the first of pat1, pat2, pat3 that matches in the block, 0 when none does
first_pat(name, blk) ==
    IF search(1, name, blk) > 0 THEN 1
    ELSE IF search(2, name, blk) > 0 THEN 2
    ELSE IF search(3, name, blk) > 0 THEN 3 ELSE 0
body_in_block(name, blk) == blk[search(first_pat(name, blk), name, blk)].body

\* _find_function_body(html, name), block by block
RECURSIVE body_from(_, _, _)
body_from(blocks, name, k) ==
    IF k > Len(blocks) THEN <<>>
    ELSE IF first_pat(name, blocks[k]) > 0 THEN body_in_block(name, blocks[k])
    ELSE body_from(blocks, name, k + 1)
_find_function_body(html, name) ==
    IF html = <<>> \/ name = <<>> THEN <<>> ELSE body_from(_SCRIPT_BLOCKS(html), name, 1)

(***************************************************************************)
(* SpecScript: one call of _find_function_body, one <script> block a step. *)
(***************************************************************************)
MaxScriptItems == 3
F_go == <<"g","o">>
F_GO == <<"G","o">>
F_logo == <<"l","o","g","o">>
SCRIPT_ITEMS ==
    {declaration(F_go, <<"l","o","c","a","t","i","o","n",".","h","r","e","f","=","'","/","d","'">>), declaration(F_logo, <<"w","i","n","d","o","w",".","o","p","e","n","(","'","/","l","'",")">>),
     expression(F_go, <<"l","o","c","a","t","i","o","n",".","h","r","e","f","=","'","/","e","'">>), expression(F_logo, <<"l","o","c","a","t","i","o","n",".","h","r","e","f","=","'","/","l","e","'">>),
     arrow(F_GO, <<"l","o","c","a","t","i","o","n",".","h","r","e","f","=","'","/","a","'">>), arrow(F_go, <<"r","e","t","u","r","n"," ","1">>), NEXT_BLOCK}
SCRIPTS == seqs_upto(SCRIPT_ITEMS, MaxScriptItems)
FUNCTION_NAMES == {F_go, F_logo, <<"n","a","v">>, <<>>}

InitScript ==
    /\ pc = "search"
    /\ pool = <<>>
    /\ \E html \in SCRIPTS, name \in FUNCTION_NAMES :
          args = [op |-> "_find_function_body", html |-> html, name |-> name]
    /\ ret = None
    /\ zf = <<>>
    /\ i = 1
    /\ calls = <<>>
    /\ rows = <<>>
    /\ parser = None

\* lines 169-170: nothing to look for
ReturnEmpty ==
    /\ pc = "search"
    /\ args.html = <<>> \/ args.name = <<>>
    /\ ret' = <<>>
    /\ pc' = "returned"
    /\ UNCHANGED <<pool, args, zf, i, calls, rows, parser>>

\* lines 181-187: the next <script> block is searched with pat1, pat2, pat3 in turn
SearchBlock ==
    /\ pc = "search"
    /\ args.html # <<>> /\ args.name # <<>>
    /\ i <= Len(_SCRIPT_BLOCKS(args.html))
    /\ IF first_pat(args.name, _SCRIPT_BLOCKS(args.html)[i]) > 0
       THEN /\ ret' = body_in_block(args.name, _SCRIPT_BLOCKS(args.html)[i])
            /\ pc' = "returned"
            /\ i' = i
       ELSE /\ i' = i + 1
            /\ UNCHANGED <<ret, pc>>
    /\ UNCHANGED <<pool, args, zf, calls, rows, parser>>

\* line 188: no block defines the function
ReturnNoBody ==
    /\ pc = "search"
    /\ args.html # <<>> /\ args.name # <<>>
    /\ i > Len(_SCRIPT_BLOCKS(args.html))
    /\ ret' = <<>>
    /\ pc' = "returned"
    /\ UNCHANGED <<pool, args, zf, i, calls, rows, parser>>

NextScript == ReturnEmpty \/ SearchBlock \/ ReturnNoBody
SpecScript == InitScript /\ [][NextScript]_vars

\* the bodies of the definitions of a form that the pattern of that form matches,
\* anywhere in the document
bodies_of(n, name, html) ==
    {html[k].body : k \in {j \in DOMAIN html : pat_matches(n, name, html[j])}}
preferred_bodies(name, html) ==
    IF bodies_of(1, name, html) # {} THEN bodies_of(1, name, html)
    ELSE IF bodies_of(2, name, html) # {} THEN bodies_of(2, name, html)
    ELSE bodies_of(3, name, html)
is_defined(name, html) ==
    name # <<>> /\ \E n \in 1..3 : bodies_of(n, name, html) # {}
body_found == pc = "returned" /\ is_defined(args.name, args.html)

\* C21: onclick-function body lookup - when the function name has several definitions in
\* the inline <script> blocks, _find_function_body returns the body of a traditional
\* declaration if any exists, else of an assignment of a function expression if any
\* exists, else of an arrow-function assignment, whichever block each definition is in.
C21_PreferenceAcrossBlocks ==
    body_found => ret \in preferred_bodies(args.name, args.html)

\* the same law on documents with a single <script> block: it holds there
one_block(html) == \A k \in DOMAIN html : html[k] # NEXT_BLOCK
C21_PreferenceInOneBlock ==
    (body_found /\ one_block(args.html)) => ret \in preferred_bodies(args.name, args.html)
\* the step-wise search and the function agree
C21_SearchIsFindFunctionBody ==
    pc = "returned" => ret = _find_function_body(args.html, args.name)

(***************************************************************************)
(* Claims on the scoring formula (checked under SpecSim).                  *)
(***************************************************************************)
joined(segs) == join(segs, <<"/">>)
\* J: Jaccard overlap of the segment sets, denominator floored at 1
overlap_J(a_segs, b_segs) ==
    Rat(Cardinality(RangeOf(a_segs) \cap RangeOf(b_segs)),
        IF RangeOf(a_segs) \cup RangeOf(b_segs) = {} THEN 1
        ELSE Cardinality(RangeOf(a_segs) \cup RangeOf(b_segs)))
\* L: 1 iff both sequences are non-empty with equal last segment
same_last_L(a_segs, b_segs) ==
    IF Len(a_segs) > 0 /\ Len(b_segs) > 0 /\ a_segs[Len(a_segs)] = b_segs[Len(b_segs)]
    THEN 1 ELSE 0
\* S: 1 iff one joined string is a suffix of the other
is_suffix_of(p, s) == \E k \in 0..Len(s) : SubSeq(s, k + 1, Len(s)) = p
suffix_S(a_segs, b_segs) ==
    IF is_suffix_of(joined(a_segs), joined(b_segs)) \/ is_suffix_of(joined(b_segs), joined(a_segs))
    THEN 1 ELSE 0
\* 40*J + 20*L + 15*S + 25*R as an exact fraction
sum_of_terms(J, L, S, R) ==
    Rat(40 * J.n * R.d + (20 * L + 15 * S) * J.d * R.d + 25 * R.n * J.d, J.d * R.d)
stated_score(a_segs, b_segs) ==
    RMin(Rat(100, 1),
         sum_of_terms(overlap_J(a_segs, b_segs), same_last_L(a_segs, b_segs),
                      suffix_S(a_segs, b_segs), ratio(joined(a_segs), joined(b_segs))))
scored_distinct_pair ==
    /\ pc = "returned"
    /\ args.a_url # <<>> /\ args.b_url # <<>> /\ args.a_url # args.b_url
no_segments(u) == _path_segs(u) = <<>>

\* C22: scoring formula - for every pair of distinct non-empty URLs path_similarity is
\* min(100, 40*J + 20*L + 15*S + 25*R) on the normalized segment sequences, also when
\* one or both URLs have no path segments.
C22_ScoreIsBlend ==
    scored_distinct_pair
        => REq(ret, stated_score(_path_segs(args.a_url), _path_segs(args.b_url)))

\* C22 amended: the same, except that a pair of URLs that both have no path segments
\* scores 0.0
C22_ScoreIsBlendUnlessNoSegments ==
    scored_distinct_pair
        => IF no_segments(args.a_url) /\ no_segments(args.b_url)
           THEN REq(ret, Rat(0, 1))
           ELSE REq(ret, stated_score(_path_segs(args.a_url), _path_segs(args.b_url)))

\* a URL without segments scored against one with a segment: only the suffix term counts
C22_Witness ==
    /\ scored_distinct_pair
    /\ no_segments(args.a_url) /\ ~no_segments(args.b_url)
    /\ REq(ret, Rat(15, 1))

(***************************************************************************)
(* Claims on the order of the report pipeline (checked under SpecParse).   *)
(***************************************************************************)
pool_calls(cs) == {k \in DOMAIN cs : cs[k].op = "build_candidate_pool_from_saz"}
resolver_calls(cs) == {k \in DOMAIN cs : cs[k].op = "best_menu_for_url"}
\* the pool is built exactly once, before anything else is called
built_once_first(cs) == pool_calls(cs) = {1}
\* at most one call of the resolver for a request entry, and only for entries of the archive
once_per_request(cs, members) ==
    /\ \A k \in resolver_calls(cs) : cs[k].idx \in DOMAIN members
    /\ \A j, k \in resolver_calls(cs) : cs[j].idx = cs[k].idx => j = k
labelling_run == args.enable_menu_label /\ pc # "build"
pipeline_in_order ==
    labelling_run =>
        /\ built_once_first(calls)
        /\ resolver_calls(calls) # {} => pool.built
        /\ once_per_request(calls, req_members(zf))
        /\ Cardinality(resolver_calls(calls)) <= Len(rows)
        /\ parse_returned => Cardinality(resolver_calls(calls)) <= Len(ret)
\* a step of the request loop that calls the resolver
ResolverCalled == HandleRequest /\ calls' # calls
PoolStays == pc # "build" => pool' = pool
RowFollowsCall == ResolverCalled => rows' = Append(rows, rows'[Len(rows')])

MaxExts == 2            \* extensions stacked at the end of a segment

S_view == <<"v","i","e","w">>
S_456 == <<"4","5","6">>
STEMS == {S_view, S_123, S_456, S_hex9, S_hex7, S_date, S_uuid, S_padded_42, <<>>}
SEG_ENDINGS == {<<".","d","o">>, <<".","H","T","M","L">>, <<".","t","x","t">>, <<" ">>}
RECURSIVE endings_upto(_)
endings_upto(n) ==
    IF n = 0 THEN {<<>>}
    ELSE endings_upto(n - 1) \cup {e \o x : e \in endings_upto(n - 1), x \in SEG_ENDINGS}
NORM_SEGMENTS == {stem \o e : stem \in STEMS, e \in endings_upto(MaxExts)}

InitNorm ==
    /\ pc = "idle"
    /\ pool = <<>>
    /\ \E seg \in NORM_SEGMENTS : args = [op |-> "_norm_seg", seg |-> seg, first |-> seg]
    /\ ret = None
    /\ zf = <<>>
    /\ i = 0
    /\ calls = <<>>
    /\ rows = <<>>
    /\ parser = None

\* lines 483-490: one call of _norm_seg
NormSeg ==
    /\ pc = "idle"
    /\ ret' = _norm_seg(args.seg)
    /\ pc' = "returned"
    /\ UNCHANGED <<pool, args, zf, i, calls, rows, parser>>

\* the result is normalised once more
NormSegAgain ==
    /\ pc = "returned"
    /\ args' = [args EXCEPT !.seg = ret]
    /\ ret' = _norm_seg(ret)
    /\ pc' = "again"
    /\ UNCHANGED <<pool, zf, i, calls, rows, parser>>

NextNorm == NormSeg \/ NormSegAgain
SpecNorm == InitNorm /\ [][NextNorm]_vars

is_volatile(s) == _NUM(s) \/ _UUID(s) \/ _HEX(s) \/ _DATE(s)
has_known_ext(s) == \E e \in EXTENSIONS : endswith(lower(s), e)
is_normal(s) == ~is_volatile(s) /\ ~has_known_ext(s)
URL_PREFIX == HTTPS \o EX_COM \o <<"/","v","i","e","w","/">>

\* C24: segment normalization is idempotent - _norm_seg(_norm_seg(s)) = _norm_seg(s) for
\* every segment s; no segment returned by _path_segs is itself purely numeric, a UUID, a
\* hex string of length >= 8 or date-shaped, nor ends in a known server extension.
C24_NormSegIdempotent ==
    /\ pc = "again" => ret = args.seg
    /\ pc = "returned" =>
          \A k \in DOMAIN _path_segs(URL_PREFIX \o args.seg) :
              is_normal(_path_segs(URL_PREFIX \o args.seg)[k])

\* the same law on the segments that do not end in a known extension: it holds there
C24_IdempotentWithoutExt ==
    (pc = "again" /\ ~has_known_ext(strip(args.first))) => ret = args.seg

\* the <a> elements among the first k elements of body that could have given the node
\* its label and its href
elements_like(body, k, node) ==
    {j \in 1..k : /\ body[j].tag = "a"
                  /\ strip(body[j].label) = node.label
                  /\ body[j].href = node.href}
from_one_element(body, k, node) ==
    (node.label # <<>> /\ node.href # <<>>) => elements_like(body, k, node) # {}

\* C25: in the menu tree the label and the href of a node always come from the same <a>
\* element - when a <li> holds several links, for instance a first one with a text but
\* no href and a later one with an href, the node never has the text of one and the href
\* of the other.
C25_LabelAndHrefFromOneLink ==
    pc = "feed" =>
        \A n \in DOMAIN parser.nodes : from_one_element(args.html.body, i - 1, parser.nodes[n])

\* the same law on the documents whose links all have an href: it holds there
all_links_have_href(body) == \A k \in DOMAIN body : body[k].tag = "a" => strip(body[k].href) # <<>>
C25_HoldsWhenLinksHaveHref ==
    (pc = "feed" /\ all_links_have_href(args.html.body)) =>
        \A n \in DOMAIN parser.nodes : from_one_element(args.html.body, i - 1, parser.nodes[n])

====
